---------------------------- MODULE Spec2Model ----------------------------
(***************************************************************************)
(* RepoScope backend: the task-name extractor and the PR unifier of        *)
(* backend/services/pr_service.py, with the two routes of                  *)
(* backend/api/pr_routes.py that call the unifier.                         *)
(*                                                                         *)
(* Strings are sequences of one-character strings, so that the regular     *)
(* expressions of extract_task_name, str.upper() and the string order of   *)
(* list.sort() are computed character by character.                        *)
(***************************************************************************)
EXTENDS Naturals, Integers, Sequences, FiniteSets, TLC

VARIABLES
  branch_name,   \* extract_task_name: the argument
  extracted,     \* extract_task_name: the returned value, NotCalled before the call
  prs,           \* the list of PR objects built by _fetch_prs_for_repo
  call,          \* which caller of unify_prs has run: "none", "direct", "unified", "fast"
  full_load,     \* GET /prs/unified: the full_load query flag of the request
  outcome,       \* what the caller got: a returned list, or an HTTP error response
  repo_urls,     \* fetch_prs: the list of repository URLs of the call
  limit_per_repo,\* fetch_prs: the limit of the call
  futures,       \* fetch_prs: one submitted _fetch_prs_for_repo per URL, by position
  all_prs,       \* fetch_prs: the list the main thread collects into
  fetched,       \* fetch_prs: how the call ended, NotFetched while it runs
  tree,          \* create_zip_excluding_git_folders: the files and directories below base_dir
  archive,       \* create_zip_excluding_git_folders: the entries of the zip file written
  runs,          \* create_virtual_workspace: the local state of each run
  fs,            \* the directories below workspace_root, by name
  clock,         \* time.time() in whole seconds
  creates,       \* POST /workspace/create: the route's state for each run
  approval,      \* POST /prs/approve: the state of the call
  mr_list,       \* _fetch_prs_for_repo: the merge requests listed, and the user
  mr_loop,       \* _fetch_prs_for_repo: what the loop over them has built and called
  project_lookup, \* get_project_from_url: the URL given and the path resolved
  gl_init        \* config.py: the forge's answers and the client made at import

vars ==
  <<branch_name, extracted, prs, call, full_load, outcome,
    repo_urls, limit_per_repo, futures, all_prs, fetched,
    tree, archive, runs, fs, clock, creates, approval, mr_list, mr_loop,
    project_lookup, gl_init>>

extractVars == <<branch_name, extracted>>

unifyVars == <<prs, call, full_load, outcome>>

fetchVars == <<repo_urls, limit_per_repo, futures, all_prs, fetched>>

zipVars == <<tree, archive>>

assembleVars == <<runs, fs, clock>>

routeVars == <<creates, approval>>

loopVars == <<mr_list, mr_loop>>

clientVars == <<project_lookup, gl_init>>

\* the state of the services other than extract_task_name and unify_prs
serviceVars ==
  <<fetchVars, zipVars, assembleVars, routeVars, loopVars, clientVars>>

\* the state that fetch_prs leaves alone
notFetchVars ==
  <<extractVars, unifyVars, zipVars, assembleVars, routeVars, loopVars, clientVars>>

\* the state that create_zip_excluding_git_folders leaves alone
notZipVars ==
  <<extractVars, unifyVars, fetchVars, assembleVars, routeVars, loopVars, clientVars>>

\* the state that create_virtual_workspace leaves alone
notAssembleVars ==
  <<extractVars, unifyVars, fetchVars, zipVars, routeVars, loopVars, clientVars>>

\* the state that the routes of workspace_routes.py and POST /prs/approve
\* leave alone, the workspace service apart
notRouteVars ==
  <<extractVars, unifyVars, fetchVars, zipVars, loopVars, clientVars>>

\* the state that the loop of _fetch_prs_for_repo over one repository's merge
\* requests leaves alone
notLoopVars ==
  <<extractVars, unifyVars, fetchVars, zipVars, assembleVars, routeVars, clientVars>>

\* the state that get_project_from_url and the client initialization of
\* config.py leave alone
notClientVars ==
  <<extractVars, unifyVars, fetchVars, zipVars, assembleVars, routeVars, loopVars>>

-----------------------------------------------------------------------------
(* Bounds of the model *)

\* a branch name has at most this many '/'-separated segments
MaxSegments == 2

\* the fetched list holds at most this many PRs
MaxPRs == 3

\* a PR list handed to unify_prs as an argument has at most this many PRs
MaxListLen == 4

\* a PR list that is unified in every order of its PRs has at most this many PRs
MaxShuffleLen == 3

\* a call of fetch_prs names at most this many repository URLs
MaxRepos == 2

\* limit_per_repo is at most this
MaxLimit == 2

\* a repository has at most this many open merge requests updated recently
MaxOpenMRs == 3

\* a workspace tree that is archived holds at most this many files
MaxTreeFiles == 4

\* the clock advances by at most this many seconds while workspaces are assembled
MaxTicks == 1

\* a call of fetch_prs with a slow repository names at most this many
\* repository URLs, one more than the worker pool holds
MaxFetches == 11

-----------------------------------------------------------------------------
(* Characters: printable ASCII, code points 32..95 and 97..126 *)

PrintableLow ==
  <<
    " ", "!", "\"", "#", "$", "%", "&", "'", "(", ")", "*", "+", ",", "-", ".", "/",
    "0", "1", "2", "3", "4", "5", "6", "7", "8", "9", ":", ";", "<", "=", ">", "?",
    "@", "A", "B", "C", "D", "E", "F", "G", "H", "I", "J", "K", "L", "M", "N", "O",
    "P", "Q", "R", "S", "T", "U", "V", "W", "X", "Y", "Z", "[", "\\", "]", "^", "_"
  >>

PrintableHigh ==
  <<
    "a", "b", "c", "d", "e", "f", "g", "h", "i", "j", "k", "l", "m", "n", "o", "p",
    "q", "r", "s", "t", "u", "v", "w", "x", "y", "z", "{", "|", "}", "~"
  >>

CodePoints ==
  (32 .. (32 + Len(PrintableLow) - 1)) \cup (97 .. (97 + Len(PrintableHigh) - 1))

\* chr(n)
Chr(n) == IF n >= 97 THEN PrintableHigh[n - 97 + 1] ELSE PrintableLow[n - 32 + 1]

CharSet == {Chr(n) : n \in CodePoints}

OrdTable == [c \in CharSet |-> CHOOSE n \in CodePoints : Chr(n) = c]

\* ord(c)
Ord(c) == OrdTable[c]

UpperLetters == {Chr(n) : n \in Ord("A")..Ord("Z")}

LowerLetters == {Chr(n) : n \in Ord("a")..Ord("z")}

Letters == UpperLetters \cup LowerLetters

Digits == {Chr(n) : n \in Ord("0")..Ord("9")}

UpperTable == [c \in CharSet |->
                 IF c \in LowerLetters THEN Chr(Ord(c) - (Ord("a") - Ord("A"))) ELSE c]

LowerTable == [c \in CharSet |->
                 IF c \in UpperLetters THEN Chr(Ord(c) + (Ord("a") - Ord("A"))) ELSE c]

\* str.upper() on ASCII text
StrUpper(s) == [i \in 1..Len(s) |-> UpperTable[s[i]]]

\* str.lower() on ASCII text
StrLower(s) == [i \in 1..Len(s) |-> LowerTable[s[i]]]

\* Optional[str]: None is a value of its own, distinct from the empty string
None == [is_none |-> TRUE, value |-> <<>>]

Some(s) == [is_none |-> FALSE, value |-> s]

\* Python truthiness of an Optional[str]: None and "" are falsy
Truthy(opt) == ~opt.is_none /\ opt.value # <<>>

-----------------------------------------------------------------------------
(* Regular expressions of extract_task_name, matched as re.match does with *)
(* re.IGNORECASE: anchored at the start, greedy, leftmost alternative      *)
(* first.  A match is [matched, groups]; groups[k] is match.group(k).      *)

NoMatch == [matched |-> FALSE, groups |-> <<>>]

Match(gs) == [matched |-> TRUE, groups |-> gs]

S(s, i, j) == SubSeq(s, i, j)

\* the literal lit matches s at position i, letter case ignored
LitAt(s, i, lit) ==
  /\ i + Len(lit) - 1 <= Len(s)
  /\ StrLower(S(s, i, i + Len(lit) - 1)) = StrLower(lit)

RECURSIVE RunLen(_, _, _)
\* length of the longest run of characters of class that starts at position i
RunLen(s, i, class) ==
  IF i <= Len(s) /\ s[i] \in class THEN 1 + RunLen(s, i + 1, class) ELSE 0

Slash == "/"

Backslash == "\\"

\* [^\/]
ClassNotSlash == CharSet \ {Slash}

\* the prefix class with the digits added: [a-zA-Z0-9_\\-]
ClassPrefix_WithDigits == Letters \cup Digits \cup {"_", Backslash, "-"}

\* [a-zA-Z_\\-] in a raw string: letters, '_', backslash, '-'
ClassPrefix == Letters \cup {"_", Backslash, "-"}

\* the segment class without the hyphen: [a-zA-Z0-9_\\.]
ClassSegment_NoHyphen == Letters \cup Digits \cup {"_", Backslash, "."}

\* [a-zA-Z0-9_\\.\\-] in a raw string: letters, digits, '_', backslash, '.', '-'
ClassSegment == Letters \cup Digits \cup {"_", Backslash, ".", "-"}

\* [A-Z] under re.IGNORECASE
ClassAZ == Letters

\* the literal d of \\d in a raw string, under re.IGNORECASE
ClassD == {"d", "D"}

\* (feature|bug|bugfix|hotfix|fix|chore|task), in the order of the alternation
PrefixAlternatives ==
  << <<"f","e","a","t","u","r","e">>, <<"b","u","g">>, <<"b","u","g","f","i","x">>,
     <<"h","o","t","f","i","x">>, <<"f","i","x">>, <<"c","h","o","r","e">>,
     <<"t","a","s","k">> >>

Renovate == <<"r","e","n","o","v","a","t","e">>

\* the groups of r'^(renovate\/[^\/]+)', n being the length of the [^\/]+ run
RenovateGroups(s, head, n) ==
  IF LitAt(s, 1, head) /\ n >= 1 THEN Match(<< S(s, 1, Len(head) + n) >>) ELSE NoMatch

\* r'^(renovate\/[^\/]+)'
MatchRenovate(s) ==
  RenovateGroups(s, Renovate \o <<Slash>>, RunLen(s, Len(Renovate) + 2, ClassNotSlash))

\* the groups of the general pattern, n1 and n2 being the lengths of its two runs
GeneralGroups(s, n1, n2) ==
  IF n1 >= 1 /\ LitAt(s, n1 + 1, <<Slash>>) /\ n2 >= 1
    THEN Match(<< S(s, 1, n1), S(s, n1 + 2, n1 + 1 + n2) >>)
    ELSE NoMatch

\* the general pattern behind its first run, of length n1
GeneralAfterPrefix(s, n1) == GeneralGroups(s, n1, RunLen(s, n1 + 2, ClassSegment))

\* r'^([a-zA-Z_\\-]+)/([a-zA-Z0-9_\\.\\-]+)'
MatchGeneral(s) == GeneralAfterPrefix(s, RunLen(s, 1, ClassPrefix))

\* [A-Z]+-\\d+ at position i, n1 and n2 being the lengths of its two runs
TicketLen(s, i, n1, n2) ==
  IF n1 >= 1 /\ LitAt(s, i + n1, <<"-", Backslash>>) /\ n2 >= 1 THEN n1 + 2 + n2 ELSE 0

\* [A-Z]+-\\d+ at position i behind its first run, of length n1
TicketAfterLetters(s, i, n1) == TicketLen(s, i, n1, RunLen(s, i + n1 + 2, ClassD))

\* [A-Z]+-\\d+ at position i: its length, 0 when it does not match there
TicketLenAt(s, i) == TicketAfterLetters(s, i, RunLen(s, i, ClassAZ))

\* \\d+ at position i, n being the length of the run of d
NumericLen(s, i, n) == IF LitAt(s, i, <<Backslash>>) /\ n >= 1 THEN 1 + n ELSE 0

\* \\d+ at position i: its length, 0 when it does not match there
NumericLenAt(s, i) == NumericLen(s, i, RunLen(s, i + 1, ClassD))

\* the alternative p followed by '/' and a remainder of length n, or else
PrefixedGroups(s, p, n, else) ==
  IF LitAt(s, 1, p \o <<Slash>>) /\ n >= 1
    THEN Match(<< S(s, 1, Len(p)), S(s, Len(p) + 2, Len(p) + 1 + n) >>)
    ELSE else

RECURSIVE MatchJiraFrom(_, _)
\* ^(alternation)/([A-Z]+-\\d+): the alternatives are tried from the k-th on,
\* the next one when the remainder of the pattern fails behind this one
MatchJiraFrom(s, k) ==
  IF k > Len(PrefixAlternatives) THEN NoMatch
  ELSE PrefixedGroups(s, PrefixAlternatives[k],
                      TicketLenAt(s, Len(PrefixAlternatives[k]) + 2),
                      MatchJiraFrom(s, k + 1))

RECURSIVE MatchNumericFrom(_, _)
\* ^(alternation)/(\\d+), likewise
MatchNumericFrom(s, k) ==
  IF k > Len(PrefixAlternatives) THEN NoMatch
  ELSE PrefixedGroups(s, PrefixAlternatives[k],
                      NumericLenAt(s, Len(PrefixAlternatives[k]) + 2),
                      MatchNumericFrom(s, k + 1))

\* r'^(feature|bug|bugfix|hotfix|fix|chore|task)/([A-Z]+-\\d+)'
MatchJira(s) == MatchJiraFrom(s, 1)

\* r'^(feature|bug|bugfix|hotfix|fix|chore|task)/(\\d+)'
MatchNumeric(s) == MatchNumericFrom(s, 1)

\* the group of r'^([A-Z]+-\\d+)', n being the length of the match
BareTicketGroups(s, n) == IF n >= 1 THEN Match(<< S(s, 1, n) >>) ELSE NoMatch

\* the bare pattern cut down to its letters: r'^([A-Z]+)'
MatchBareTicket_LettersOnly(s) == BareTicketGroups(s, RunLen(s, 1, ClassAZ))

\* r'^([A-Z]+-\\d+)'
MatchBareTicket(s) == BareTicketGroups(s, TicketLenAt(s, 1))

\* patterns_config with group 1, the prefix, taken from the general pattern
patterns_config_GeneralPrefixGroup ==
  << [regex |-> "renovate",    task_group_index |-> 1],
     [regex |-> "general",     task_group_index |-> 1],
     [regex |-> "jira",        task_group_index |-> 2],
     [regex |-> "numeric",     task_group_index |-> 2],
     [regex |-> "bare_ticket", task_group_index |-> 1] >>

\* patterns_config, in list order
patterns_config ==
  << [regex |-> "renovate",    task_group_index |-> 1],
     [regex |-> "general",     task_group_index |-> 2],
     [regex |-> "jira",        task_group_index |-> 2],
     [regex |-> "numeric",     task_group_index |-> 2],
     [regex |-> "bare_ticket", task_group_index |-> 1] >>

\* re.match(pattern, branch_name, re.IGNORECASE)
ReMatch(regex, s) ==
  CASE regex = "renovate"    -> MatchRenovate(s)
    [] regex = "general"     -> MatchGeneral(s)
    [] regex = "jira"        -> MatchJira(s)
    [] regex = "numeric"     -> MatchNumeric(s)
    [] regex = "bare_ticket" -> MatchBareTicket(s)

\* the captured group returned as it is, without .upper()
Standardize_AsIs(name) == name

\* extracted_name.upper()
Standardize(name) == StrUpper(name)

\* one turn of the loop over patterns_config: what it returns for the match m,
\* None standing for a turn that returns nothing
Captured(m, task_group_index) ==
  IF m.matched /\ Len(m.groups) >= task_group_index
    THEN Some(Standardize(m.groups[task_group_index]))
  ELSE IF m.matched /\ m.groups[1] # <<>>
    THEN Some(Standardize(m.groups[1]))
  ELSE None

\* the value the loop returns: that of this turn, or else that of the later turns
FirstReturn(this, later) == IF this.is_none THEN later ELSE this

RECURSIVE ExtractFrom(_, _, _)
\* the loop over patterns_config, from its k-th entry on; None when it ends
ExtractFrom(config, k, s) ==
  IF k > Len(config) THEN None
  ELSE FirstReturn(Captured(ReMatch(config[k].regex, s), config[k].task_group_index),
                   ExtractFrom(config, k + 1, s))

extract_task_name(s) == ExtractFrom(patterns_config, 1, s)

-----------------------------------------------------------------------------
(* extract_task_name applied to a branch name *)

\* the '/'-separated segments branch names are built from
Segments ==
  {
    \* the conventional prefixes, two of them in another letter case
    <<"f","e","a","t","u","r","e">>, <<"b","u","g">>, <<"b","u","g","f","i","x">>,
    <<"h","o","t","f","i","x">>, <<"f","i","x">>, <<"c","h","o","r","e">>, <<"t","a","s","k">>,
    <<"F","e","a","t","u","r","e">>, <<"F","I","X">>,
    \* other first segments
    <<"r","e","n","o","v","a","t","e">>, <<"R","e","n","o","v","a","t","e">>,
    <<"r","e","l","e","a","s","e">>, <<"r","e","l","1">>, <<"m","a","i","n">>,
    <<"D","e","v","e","l","o","p">>,
    \* ticket tokens, numeric tokens and free text
    <<"A","B","C","-","1","2","3">>, <<"a","b","c","-","1","2">>, <<"1","2","3">>, <<"7">>,
    <<"v","2">>, <<"A","B","C","-","1","2","3","-","l","o","g","i","n">>,
    <<"A","B","C","-","1","2","3","-","u","i">>, <<"r","e","q","u","e","s","t","s">>,
    <<"1",".","0">>,
    \* the empty segment, a backslash before d, a space, a character outside every class
    <<>>, <<"A","-","\\","d">>, <<"\\","d","d">>, <<"x"," ","y">>, <<"@","x">>
  }

RECURSIVE JoinSlash(_)
\* "/".join(segs)
JoinSlash(segs) ==
  IF Len(segs) = 1 THEN segs[1] ELSE segs[1] \o <<Slash>> \o JoinSlash(Tail(segs))

SegmentLists == UNION {[1..n -> Segments] : n \in 1..MaxSegments}

BranchNames == {JoinSlash(segs) : segs \in SegmentLists}

\* fetch_prs has not returned
NotFetched == [kind |-> "running", prs |-> <<>>]

\* no call of fetch_prs is under way
FetchIdle ==
  /\ repo_urls = <<>>
  /\ limit_per_repo = 1
  /\ futures = <<>>
  /\ all_prs = <<>>
  /\ fetched = NotFetched

\* the zip file has not been written
NotZipped == [written |-> FALSE, entries |-> {}]

\* no archive is being packaged
ZipIdle ==
  /\ tree = [files |-> {}, dirs |-> {}]
  /\ archive = NotZipped

\* no workspace is being assembled
AssembleIdle ==
  /\ runs = <<>>
  /\ fs = <<>>
  /\ clock = 0

\* POST /prs/approve has not been called
NotApproving ==
  [ pc |-> "idle", task_name |-> <<>>, prs |-> <<>>, task_prs |-> <<>>,
    attempts |-> <<>>, status_code |-> 0 ]

\* no request is being served by POST /workspace/create or POST /prs/approve
RoutesIdle ==
  /\ creates = <<>>
  /\ approval = NotApproving

\* the loop of _fetch_prs_for_repo has not run
NotLooped == [done |-> FALSE, repo_prs |-> <<>>, pipeline_calls |-> 0, approval_calls |-> <<>>]

\* no list of merge requests is being processed on its own
LoopIdle ==
  /\ mr_list = [merge_requests |-> <<>>, current_username |-> None,
                include_pipeline_status |-> TRUE]
  /\ mr_loop = NotLooped

\* get_project_from_url has not been called
NotLookedUp == [pc |-> "idle", repo_url |-> <<>>, path |-> <<>>]

\* config.py has not been imported
NotImported ==
  [pc |-> "idle", token |-> FALSE, network_ok |-> FALSE, status_code |-> 0,
   body |-> "none", auth |-> "none", gl |-> "None", raised |-> "none"]

\* no URL is being resolved and no client is being initialized
ClientIdle == project_lookup = NotLookedUp /\ gl_init = NotImported

\* no service other than extract_task_name and unify_prs is running
ServicesIdle ==
  FetchIdle /\ ZipIdle /\ AssembleIdle /\ RoutesIdle /\ LoopIdle /\ ClientIdle

NotCalled == [called |-> FALSE, result |-> None]

Returned(r) == [called |-> TRUE, result |-> r]

InitExtract ==
  /\ branch_name \in BranchNames
  /\ extracted = NotCalled
  /\ prs = <<>>
  /\ call = "none"
  /\ full_load = FALSE
  /\ outcome = [kind |-> "none", tasks |-> <<>>, status_code |-> 0]
  /\ ServicesIdle

\* task_name = self.extract_task_name(mr.source_branch)
ExtractTaskName ==
  /\ ~extracted.called
  /\ extracted' = Returned(extract_task_name(branch_name))
  /\ UNCHANGED <<branch_name, unifyVars, serviceVars>>

NextExtract == ExtractTaskName

SpecExtract == InitExtract /\ [][NextExtract]_vars

-----------------------------------------------------------------------------
(* PRService.unify_prs *)

\* a < b for str: code point by code point, a proper prefix is smaller
RECURSIVE StrLess(_, _)
StrLess(a, b) ==
  IF Len(b) = 0 THEN FALSE
  ELSE IF Len(a) = 0 THEN TRUE
  ELSE IF Ord(a[1]) # Ord(b[1]) THEN Ord(a[1]) < Ord(b[1])
  ELSE StrLess(Tail(a), Tail(b))

\* the PR object _fetch_prs_for_repo builds for one merge request:
\* task_name is extracted from the source branch, the two counts keep their
\* default (the constructor call does not pass them)
PR(id, source_branch, state) ==
  [ id             |-> id,
    source_branch  |-> source_branch,
    state          |-> state,
    task_name      |-> extract_task_name(source_branch),
    changes_count  |-> 0,
    comments_count |-> 0 ]

RECURSIVE SumChanges(_)
\* sum(getattr(pr_item, 'changes_count', 0) for pr_item in group)
SumChanges(group) ==
  IF Len(group) = 0 THEN 0 ELSE Head(group).changes_count + SumChanges(Tail(group))

RECURSIVE SumComments_OfChanges(_)
\* the comment total summed over changes_count
SumComments_OfChanges(group) ==
  IF Len(group) = 0 THEN 0
  ELSE Head(group).changes_count + SumComments_OfChanges(Tail(group))

RECURSIVE SumComments(_)
\* sum(getattr(pr_item, 'comments_count', 0) for pr_item in group)
SumComments(group) ==
  IF Len(group) = 0 THEN 0 ELSE Head(group).comments_count + SumComments(Tail(group))

\* all(pr_item.state == st for pr_item in group)
AllState(group, st) == \A i \in 1..Len(group) : group[i].state = st

\* current_status with any() written for the first all()
TaskStatus_AnyMerged(task_prs) ==
  IF \E i \in 1..Len(task_prs) : task_prs[i].state = "merged" THEN "merged"
  ELSE IF AllState(task_prs, "closed") THEN "closed"
  ELSE "open"

\* current_status of a task-keyed group
TaskStatus(task_prs) ==
  IF AllState(task_prs, "merged") THEN "merged"
  ELSE IF AllState(task_prs, "closed") THEN "closed"
  ELSE "open"

\* current_status of a branch-keyed group
BranchStatus(branch_prs_group) ==
  IF AllState(branch_prs_group, "merged") THEN "merged"
  ELSE IF AllState(branch_prs_group, "closed") THEN "closed"
  ELSE "open"

UnifiedPR(task_name, group, total_changes, total_comments, status) ==
  [ task_name      |-> task_name,
    prs            |-> group,
    total_changes  |-> total_changes,
    total_comments |-> total_comments,
    status         |-> status ]

\* the size test written len(task_prs) > 0
TaskGroupReported_NonEmpty(task_prs) == Len(task_prs) > 0

\* if len(task_prs) > 1
TaskGroupReported(task_prs) == Len(task_prs) > 1

\* if len(branch_prs_group) > 1
BranchGroupReported(branch_prs_group) == Len(branch_prs_group) > 1

\* the branch key normalised to lower case
BranchKey_Lower(pr) == StrLower(pr.source_branch)

\* branch_key = pr.source_branch
BranchKey(pr) == pr.source_branch

BranchLabelPrefix == <<"B","r","a","n","c","h",":"," ">>

\* f"Branch: {branch_name_key}"
DisplayTaskName(branch_name_key) == BranchLabelPrefix \o branch_name_key

\* dict insertion of key k behind the keys already there
DictInsert(keys, k) ==
  IF \E i \in 1..Len(keys) : keys[i] = k THEN keys ELSE Append(keys, k)

RECURSIVE DictKeys(_)
\* the keys of a dict filled in the order of keys: each key once, in the
\* order of its first insertion
DictKeys(keys) ==
  IF Len(keys) = 0 THEN <<>>
  ELSE DictInsert(DictKeys(SubSeq(keys, 1, Len(keys) - 1)), keys[Len(keys)])

\* x inserted into l behind its first n elements
InsertAt(l, n, x) == SubSeq(l, 1, n) \o <<x>> \o SubSeq(l, n + 1, Len(l))

\* x inserted into the sorted list l behind every element that is not greater
InsertByTaskName(l, x) ==
  InsertAt(l, Cardinality({i \in 1..Len(l) : ~StrLess(x.task_name, l[i].task_name)}), x)

RECURSIVE SortByTaskName(_)
\* l.sort(key=lambda x: x.task_name): ascending and stable
SortByTaskName(l) ==
  IF Len(l) = 0 THEN <<>>
  ELSE InsertByTaskName(SortByTaskName(SubSeq(l, 1, Len(l) - 1)), l[Len(l)])

\* the first loop: PRs with a truthy task_name, in list order
WithTaskName(prs_) == SelectSeq(prs_, LAMBDA pr : Truthy(pr.task_name))

\* prs_without_task_name
WithoutTaskName(prs_) == SelectSeq(prs_, LAMBDA pr : ~Truthy(pr.task_name))

\* the group cut off at the first PR of another task, as a grouping of
\* adjacent PRs would build it
TaskGroup_FirstRun(with_task, task_name) ==
  LET first == CHOOSE i \in 1..Len(with_task) : with_task[i].task_name.value = task_name
      stop == {i \in first..Len(with_task) : with_task[i].task_name.value # task_name}
      last == IF stop = {} THEN Len(with_task)
              ELSE (CHOOSE i \in stop : \A j \in stop : i <= j) - 1
  IN  SubSeq(with_task, first, last)

\* unified_prs_map[task_name], with_task being the PRs the first loop files
TaskGroup(with_task, task_name) ==
  SelectSeq(with_task, LAMBDA pr : pr.task_name.value = task_name)

\* the UnifiedPR of the task-keyed group task_prs
TaskUnifiedPR(task_name, task_prs) ==
  UnifiedPR(task_name, task_prs, SumChanges(task_prs), SumComments(task_prs),
            TaskStatus(task_prs))

\* the loop over unified_prs_map.items(), keys being the dict's keys in order
TaskUnifiedList(with_task, keys) ==
  [i \in 1..Len(keys) |-> TaskUnifiedPR(keys[i], TaskGroup(with_task, keys[i]))]

\* the keys of unified_prs_map whose group is reported
TaskKeysReported(with_task, keys) ==
  SelectSeq(keys, LAMBDA k : TaskGroupReported(TaskGroup(with_task, k)))

\* the keys of unified_prs_map, in insertion order
TaskKeys(with_task) ==
  DictKeys([i \in 1..Len(with_task) |-> with_task[i].task_name.value])

\* unified_prs_list of the PRs the first loop files, sorted
TaskUnifiedOf(with_task) ==
  SortByTaskName(
    TaskUnifiedList(with_task, TaskKeysReported(with_task, TaskKeys(with_task))))

\* unified_prs_list, sorted
TaskUnified(prs_) == TaskUnifiedOf(WithTaskName(prs_))

\* if self.extract_task_name(pr.source_branch) is None
BranchMatches(pr) == extract_task_name(pr.source_branch).is_none

\* the PRs the second loop files in branch_matched_prs_map
BranchMatched(prs_) == SelectSeq(WithoutTaskName(prs_), BranchMatches)

\* branch_matched_prs_map[branch_key], matched being the PRs the second loop files
BranchGroup(matched, branch_key) ==
  SelectSeq(matched, LAMBDA pr : BranchKey(pr) = branch_key)

\* the UnifiedPR of the branch-keyed group
BranchUnifiedPR(branch_name_key, branch_prs_group) ==
  UnifiedPR(DisplayTaskName(branch_name_key), branch_prs_group,
            SumChanges(branch_prs_group), SumComments(branch_prs_group),
            BranchStatus(branch_prs_group))

\* the loop over branch_matched_prs_map.items(), keys being the dict's keys in order
BranchUnifiedList(matched, keys) ==
  [i \in 1..Len(keys) |-> BranchUnifiedPR(keys[i], BranchGroup(matched, keys[i]))]

\* the keys of branch_matched_prs_map whose group is reported
BranchKeysReported(matched, keys) ==
  SelectSeq(keys, LAMBDA k : BranchGroupReported(BranchGroup(matched, k)))

\* the keys of branch_matched_prs_map, in insertion order
BranchKeys(matched) == DictKeys([i \in 1..Len(matched) |-> BranchKey(matched[i])])

\* branch_unified_prs_list of the PRs the second loop files, sorted
BranchUnifiedOf(matched) ==
  SortByTaskName(
    BranchUnifiedList(matched, BranchKeysReported(matched, BranchKeys(matched))))

\* branch_unified_prs_list, sorted
BranchUnified(prs_) == BranchUnifiedOf(BranchMatched(prs_))

\* the two lists sorted together by label
unify_prs_SortedTogether(prs_) ==
  SortByTaskName(TaskUnified(prs_) \o BranchUnified(prs_))

\* final_unified_prs = unified_prs_list + branch_unified_prs_list
unify_prs(prs_) == TaskUnified(prs_) \o BranchUnified(prs_)

-----------------------------------------------------------------------------
(* The callers of unify_prs: a call with the list alone, and the two routes *)

\* def unify_prs(self, prs): the parameters a caller may pass
unify_prs_params == {"prs"}

\* a Python call of unify_prs with the list and the given keyword arguments:
\* a keyword that is no parameter raises TypeError before the body runs
CallUnifyPrs(prs_, kwargs) ==
  IF kwargs \subseteq unify_prs_params
    THEN [raised |-> FALSE, value |-> unify_prs(prs_)]
    ELSE [raised |-> TRUE, value |-> <<>>]

NoOutcome == [kind |-> "none", tasks |-> <<>>, status_code |-> 0]

\* the caller received the list
ReturnedTasks(tasks) == [kind |-> "returned", tasks |-> tasks, status_code |-> 0]

\* the route answered 200 with the list as its body
HttpOk(tasks) == [kind |-> "response", tasks |-> tasks, status_code |-> 200]

\* raise HTTPException(status_code=500, detail=str(e))
HttpError(code) == [kind |-> "response", tasks |-> <<>>, status_code |-> code]

\* source branches of the merge requests the forge lists
MRBranches ==
  { <<"f","i","x","/","A","-","1">>, <<"b","u","g","/","a","-","1">>, <<"f","i","x","/","B","-","2">>,
    <<"m","a","i","n">>, <<"M","a","i","n">> }

\* lifecycle states of a merge request on the forge
MRStates == {"opened", "merged", "closed"}

InitUnify ==
  /\ branch_name = <<>>
  /\ extracted = NotCalled
  /\ prs = <<>>
  /\ call = "none"
  /\ full_load = FALSE
  /\ outcome = NoOutcome
  /\ ServicesIdle

\* _fetch_prs_for_repo, one turn of its loop over the listed merge requests:
\* the PR built from the merge request is appended
FetchMR(source_branch, state) ==
  /\ call = "none"
  /\ Len(prs) < MaxPRs
  /\ prs' = Append(prs, PR(Len(prs) + 1, source_branch, state))
  /\ UNCHANGED <<extractVars, call, full_load, outcome, serviceVars>>

\* pr_service.unify_prs(prs)
UnifyPrs ==
  /\ call = "none"
  /\ LET r == CallUnifyPrs(prs, {})
     IN  outcome' = IF r.raised THEN HttpError(500) ELSE ReturnedTasks(r.value)
  /\ call' = "direct"
  /\ UNCHANGED <<extractVars, prs, full_load, serviceVars>>

\* GET /prs/unified: unify_prs(prs, include_single_pr_tasks=full_load) inside
\* try/except Exception -> HTTPException(500)
GetUnifiedPrs(fl) ==
  /\ call = "none"
  /\ full_load' = fl
  /\ LET r == CallUnifyPrs(prs, {"include_single_pr_tasks"})
     IN  outcome' = IF r.raised THEN HttpError(500) ELSE HttpOk(r.value)
  /\ call' = "unified"
  /\ UNCHANGED <<extractVars, prs, serviceVars>>

\* GET /prs/unified/fast: unify_prs(prs, include_single_pr_tasks=False) inside
\* try/except Exception -> HTTPException(500)
GetUnifiedPrsFast ==
  /\ call = "none"
  /\ LET r == CallUnifyPrs(prs, {"include_single_pr_tasks"})
     IN  outcome' = IF r.raised THEN HttpError(500) ELSE HttpOk(r.value)
  /\ call' = "fast"
  /\ UNCHANGED <<extractVars, prs, full_load, serviceVars>>

\* a PR whose two counts were set by the caller that built it
PRWithCounts(pr, changes_count, comments_count) ==
  [pr EXCEPT !.changes_count = changes_count, !.comments_count = comments_count]

\* source branches of the PRs of a list handed to unify_prs
ListBranches ==
  { <<"f","i","x","/","A","-","1">>, <<"b","u","g","/","a","-","1">>, <<"f","i","x","/","C","-","3">>,
    <<"m","a","i","n">>, <<"M","a","i","n">> }

\* the counts of a PR that carries counts: <<changes_count, comments_count>>
ListCounts == { <<1, 2>>, <<2, 0>> }

\* the PRs a list is drawn from: <<source_branch, changes_count, comments_count>>,
\* every branch with the default counts, one branch also with counts set
ListPRArgs ==
  { <<b, 0, 0>> : b \in ListBranches }
    \cup { <<<<"f","i","x","/","A","-","1">>, c[1], c[2]>> : c \in ListCounts }

\* the list of open PRs built from a choice of arguments, ids by position
PRList(args) ==
  [i \in 1..Len(args) |->
     PRWithCounts(PR(i, args[i][1], "opened"), args[i][2], args[i][3])]

PRLists == { PRList(args) : args \in UNION { [1..n -> ListPRArgs] : n \in 0..MaxListLen } }

\* unify_prs as a function of its argument: any list of PRs
InitUnifyList ==
  /\ branch_name = <<>>
  /\ extracted = NotCalled
  /\ prs \in PRLists
  /\ call = "none"
  /\ full_load = FALSE
  /\ outcome = NoOutcome
  /\ ServicesIdle

NextUnifyList == UnifyPrs

SpecUnifyList == InitUnifyList /\ [][NextUnifyList]_vars

\* the lists whose every rearrangement is unified as well
ShortPRLists == { l \in PRLists : Len(l) <= MaxShuffleLen }

InitUnifyShuffle ==
  /\ branch_name = <<>>
  /\ extracted = NotCalled
  /\ prs \in ShortPRLists
  /\ call = "none"
  /\ full_load = FALSE
  /\ outcome = NoOutcome
  /\ ServicesIdle

SpecUnifyShuffle == InitUnifyShuffle /\ [][NextUnifyList]_vars

Next ==
  \/ \E b \in MRBranches, st \in MRStates : FetchMR(b, st)
  \/ UnifyPrs
  \/ \E fl \in BOOLEAN : GetUnifiedPrs(fl)
  \/ GetUnifiedPrsFast

Init == InitUnify

Spec == Init /\ [][Next]_vars

-----------------------------------------------------------------------------
(* Properties of unify_prs, checked under Spec *)

\* unify_prs returned its list to a caller that passed the PR list alone
UnifyReturned == call = "direct" /\ outcome.kind = "returned"

\* the tasks of the outcome, as a set
OutcomeTasks == {outcome.tasks[i] : i \in 1..Len(outcome.tasks)}

\* the ids of the members of task t
MemberIds(t) == {t.prs[j].id : j \in 1..Len(t.prs)}

\* the states of the members of task t
MemberStates(t) == {t.prs[j].state : j \in 1..Len(t.prs)}

\* the label of the branch-keyed group of a branch
BranchLabel(b) == <<"B","r","a","n","c","h",":"," ">> \o b

\* task t is a branch-keyed group: its label starts with "Branch: "
IsBranchKeyed(t) ==
  /\ Len(t.task_name) >= 8
  /\ SubSeq(t.task_name, 1, 8) = <<"B","r","a","n","c","h",":"," ">>

\* C1: every UnifiedTask returned by unify_prs has status 'merged' iff every
\* member PR is 'merged', 'closed' iff every member PR is 'closed' and not all
\* are 'merged', and 'open' in every other case, task-keyed and branch-keyed
\* groups alike.
Thm_C1_StatusFollowsMembers ==
  UnifyReturned =>
    \A t \in OutcomeTasks :
      /\ (t.status = "merged") <=> (MemberStates(t) = {"merged"})
      /\ (t.status = "closed") <=> (MemberStates(t) = {"closed"})
      /\ (t.status = "open") <=> (MemberStates(t) \notin {{"merged"}, {"closed"}})
      /\ t.status \in {"merged", "closed", "open"}

\* C1 witness: a returned list that holds a branch-keyed group whose members
\* are all merged and that is reported merged.
Wit_C1_MergedBranchGroup ==
  /\ UnifyReturned
  /\ \E t \in OutcomeTasks :
       IsBranchKeyed(t) /\ MemberStates(t) = {"merged"} /\ t.status = "merged"

\* C2: unify_prs called without singleton inclusion never returns a
\* UnifiedTask with exactly one member, and never one with no member.
Thm_C2_NoSingletonNoEmpty ==
  ~(call = "unified" /\ full_load) =>
    \A t \in OutcomeTasks : Len(t.prs) # 1 /\ Len(t.prs) # 0

\* C2 witness: the input holds a PR that is alone in its group, the call
\* returned a non-empty list, and that PR is in none of the returned tasks.
Wit_C2_SingletonLeftOut ==
  /\ UnifyReturned
  /\ OutcomeTasks # {}
  /\ \E i \in 1..Len(prs) :
       /\ \A j \in 1..Len(prs) : prs[j].source_branch = prs[i].source_branch => j = i
       /\ \A j \in 1..Len(prs) : prs[j].task_name = prs[i].task_name => j = i
       /\ \A t \in OutcomeTasks : prs[i].id \notin MemberIds(t)

\* C3 (as claimed): unification requested with include_single_pr_tasks set, as
\* GET /prs/unified does for full_load = true, completes normally and every
\* non-empty group, a group of one PR included, becomes a UnifiedTask; with the
\* flag unset only groups of at least two members do.
Cex_C3_FullLoadIncludesSingletons ==
  /\ (call = "unified" /\ full_load) =>
       /\ outcome.status_code = 200
       /\ \A i \in 1..Len(prs) : \E t \in OutcomeTasks : prs[i].id \in MemberIds(t)
  /\ ~(call = "unified" /\ full_load) =>
       \A t \in OutcomeTasks : Len(t.prs) >= 2

\* C4: every PR without a task identifier is filed under the branch group of
\* its exact source_branch: two or more such PRs sharing a source_branch are all
\* members of the task labelled "Branch: <source_branch>", and a branch-keyed
\* task never holds PRs of different source_branch strings.
Thm_C4_BranchGroupsByExactBranch ==
  UnifyReturned =>
    /\ \A i, j \in 1..Len(prs) :
         ( /\ i # j
           /\ prs[i].task_name.is_none
           /\ prs[j].task_name.is_none
           /\ prs[i].source_branch = prs[j].source_branch )
         => \E t \in OutcomeTasks :
              /\ t.task_name = BranchLabel(prs[i].source_branch)
              /\ {prs[i].id, prs[j].id} \subseteq MemberIds(t)
    /\ \A t \in OutcomeTasks :
         IsBranchKeyed(t) =>
           \A j \in 1..Len(t.prs) :
             /\ t.task_name = BranchLabel(t.prs[j].source_branch)
             /\ t.prs[j].task_name.is_none

\* C4 witness: two PRs on branch main and one on branch Main, none with a task
\* identifier; the task "Branch: main" holds exactly the two PRs of main.
Wit_C4_MainTwiceAndMainCapital ==
  /\ UnifyReturned
  /\ \E i, j, k \in 1..Len(prs) :
       /\ i # j
       /\ prs[i].source_branch = <<"m","a","i","n">>
       /\ prs[j].source_branch = <<"m","a","i","n">>
       /\ prs[k].source_branch = <<"M","a","i","n">>
       /\ prs[i].task_name.is_none /\ prs[k].task_name.is_none
       /\ \E t \in OutcomeTasks :
            /\ t.task_name = BranchLabel(<<"m","a","i","n">>)
            /\ MemberIds(t) = {prs[i].id, prs[j].id}

-----------------------------------------------------------------------------
(* Properties of extract_task_name, checked under SpecExtract *)

ExtractDone == extracted.called

ExtractResult == extracted.result

\* position of the first '/' of s, 0 when s has none
FirstSlash(s) ==
  IF \E i \in 1..Len(s) : s[i] = "/"
    THEN CHOOSE i \in 1..Len(s) : s[i] = "/" /\ \A j \in 1..(i - 1) : s[j] # "/"
    ELSE 0

HasSlash(s) == FirstSlash(s) # 0

\* the text before the first '/'
BeforeSlash(s) == SubSeq(s, 1, FirstSlash(s) - 1)

\* the text behind the first '/'
AfterSlash(s) == SubSeq(s, FirstSlash(s) + 1, Len(s))

AllIn(t, class) == \A i \in 1..Len(t) : t[i] \in class

\* t is LETTERS-DIGITS: one or more letters, a hyphen, one or more digits
IsTicketToken(t) ==
  \E n \in 1..Len(t) :
    /\ AllIn(SubSeq(t, 1, n), Letters)
    /\ n + 2 <= Len(t)
    /\ t[n + 1] = "-"
    /\ AllIn(SubSeq(t, n + 2, Len(t)), Digits)

\* t is one or more digits
IsNumericToken(t) == Len(t) >= 1 /\ AllIn(t, Digits)

\* length of the longest ticket token s starts with, 0 when it starts with none
LeadingTicketLen(s) ==
  IF \E m \in 1..Len(s) : IsTicketToken(SubSeq(s, 1, m))
    THEN CHOOSE m \in 1..Len(s) :
           /\ IsTicketToken(SubSeq(s, 1, m))
           /\ \A k \in (m + 1)..Len(s) : ~IsTicketToken(SubSeq(s, 1, k))
    ELSE 0

StartsWithTicket(s) == LeadingTicketLen(s) > 0

\* the seven conventional prefixes, in any letter case
IsConventionalPrefix(p) ==
  StrLower(p) \in { <<"f","e","a","t","u","r","e">>, <<"b","u","g">>,
                    <<"b","u","g","f","i","x">>, <<"h","o","t","f","i","x">>,
                    <<"f","i","x">>, <<"c","h","o","r","e">>, <<"t","a","s","k">> }

\* the characters a token of the general form is made of
TokenChars == Letters \cup Digits \cup {"_", ".", "-"}

\* length of the run of token characters s starts with
TokenRunLen(s) ==
  IF AllIn(s, TokenChars) THEN Len(s)
  ELSE (CHOOSE i \in 1..Len(s) :
          s[i] \notin TokenChars /\ AllIn(SubSeq(s, 1, i - 1), TokenChars)) - 1

\* s can be the name of a git branch: no empty path segment, and none of the
\* characters git forbids in a reference name
ValidRefName(s) ==
  /\ Len(s) >= 1
  /\ s[1] # "/" /\ s[Len(s)] # "/"
  /\ \A i \in 1..(Len(s) - 1) : ~(s[i] = "/" /\ s[i + 1] = "/")
  /\ \A i \in 1..Len(s) : s[i] \notin {" ", "~", "^", ":", "?", "*", "[", "\\"}

\* C5: for a branch name that is exactly a conventional prefix, '/', and a
\* token LETTERS-DIGITS or a purely numeric token, extract_task_name returns
\* that token, upper-cased (feature/ABC-123 -> ABC-123, feature/123 -> 123).
Thm_C5_PrefixedTokenReturned ==
  ( /\ ExtractDone
    /\ HasSlash(branch_name)
    /\ IsConventionalPrefix(BeforeSlash(branch_name))
    /\ \/ IsTicketToken(AfterSlash(branch_name))
       \/ IsNumericToken(AfterSlash(branch_name)) )
  => ExtractResult = Some(StrUpper(AfterSlash(branch_name)))

\* C5 witness: bugfix/ABC-123 has been extracted and yielded ABC-123.
Wit_C5_BugfixTicket ==
  /\ ExtractDone
  /\ branch_name = <<"b","u","g","f","i","x","/","A","B","C","-","1","2","3">>
  /\ ExtractResult = Some(<<"A","B","C","-","1","2","3">>)

\* C6 (as claimed): for a branch name that starts with a bare ticket token
\* LETTERS-DIGITS, extract_task_name returns that token (ABC-123 -> ABC-123),
\* not 'no task identifier'.
Cex_C6_BareTicketReturned ==
  (ExtractDone /\ StartsWithTicket(branch_name))
  => ExtractResult =
       Some(StrUpper(SubSeq(branch_name, 1, LeadingTicketLen(branch_name))))

\* a conventional prefix, '/', a ticket token and further trailing text
PrefixedTicketWithTrailer(s) ==
  /\ ValidRefName(s)
  /\ HasSlash(s)
  /\ IsConventionalPrefix(BeforeSlash(s))
  /\ LeadingTicketLen(AfterSlash(s)) > 0
  /\ LeadingTicketLen(AfterSlash(s)) < Len(AfterSlash(s))

\* C7 (as claimed): for a conventional prefix, '/', a ticket token and further
\* trailing text, extract_task_name returns the ticket token alone
\* (feature/ABC-123-login -> ABC-123).
Cex_C7_TrailerDropped ==
  (ExtractDone /\ PrefixedTicketWithTrailer(branch_name))
  => ExtractResult =
       Some(StrUpper(SubSeq(AfterSlash(branch_name), 1,
                            LeadingTicketLen(AfterSlash(branch_name)))))

\* C7 (amended): for a conventional prefix, '/', a ticket token and further
\* trailing text, extract_task_name returns the upper-cased run of letters,
\* digits, '_', '.' and '-' that follows the '/': the ticket token together
\* with the trailing text up to the first other character
\* (feature/ABC-123-login -> ABC-123-LOGIN), so that branches which differ in
\* that trailing text receive different task identifiers.
Thm_C7_TrailerKept ==
  (ExtractDone /\ PrefixedTicketWithTrailer(branch_name))
  => ExtractResult =
       Some(StrUpper(SubSeq(AfterSlash(branch_name), 1,
                            TokenRunLen(AfterSlash(branch_name)))))

\* C7 witness: feature/ABC-123-login has been extracted and yielded
\* ABC-123-LOGIN.
Wit_C7_LoginTrailer ==
  /\ ExtractDone
  /\ branch_name = <<"f","e","a","t","u","r","e","/","A","B","C","-","1","2","3","-","l","o","g","i","n">>
  /\ ExtractResult = Some(<<"A","B","C","-","1","2","3","-","L","O","G","I","N">>)

\* C8: for a branch name that contains no '/' and does not start with a ticket
\* token LETTERS-DIGITS (main, develop), extract_task_name returns None, which
\* is not the empty string.
Thm_C8_PlainNameYieldsNone ==
  ( /\ ExtractDone
    /\ ValidRefName(branch_name)
    /\ ~HasSlash(branch_name)
    /\ ~StartsWithTicket(branch_name) )
  => (ExtractResult = None /\ ExtractResult # Some(<<>>))

\* C8 witness: main has been extracted and yielded None.
Wit_C8_Main ==
  /\ ExtractDone
  /\ branch_name = <<"m","a","i","n">>
  /\ ExtractResult = None

\* one of the three rules of the specification matches s
SpecifiedRuleMatches(s) ==
  \/ /\ HasSlash(s)
     /\ IsConventionalPrefix(BeforeSlash(s))
     /\ \/ StartsWithTicket(AfterSlash(s))
        \/ (Len(AfterSlash(s)) >= 1 /\ AfterSlash(s)[1] \in Digits)
  \/ StartsWithTicket(s)

\* C9 (as claimed): extract_task_name returns a task identifier only when one
\* of the three specified rules matches; a name <other>/<text> with another
\* prefix and no leading ticket token (release/v2, renovate/requests) yields
\* 'no task identifier'.
Cex_C9_OnlySpecifiedRules ==
  (ExtractDone /\ ValidRefName(branch_name) /\ ~ExtractResult.is_none)
  => SpecifiedRuleMatches(branch_name)

\* a name <other>/<text>: the prefix is none of the seven conventional ones and
\* the name does not start with a ticket token
OtherPrefixed(s) ==
  /\ ValidRefName(s)
  /\ HasSlash(s)
  /\ ~IsConventionalPrefix(BeforeSlash(s))
  /\ ~StartsWithTicket(s)

\* renovate/<module>
RenovateShape(s) == StrLower(BeforeSlash(s)) = <<"r","e","n","o","v","a","t","e">>

\* <prefix>/<text>: the prefix made of letters, '_' and '-', the text starting
\* with a letter, a digit, '_', '.' or '-'
GeneralShape(s) ==
  /\ AllIn(BeforeSlash(s), Letters \cup {"_", "-"})
  /\ AfterSlash(s)[1] \in TokenChars

\* the first path segment of s
FirstSegment(s) == IF HasSlash(s) THEN BeforeSlash(s) ELSE s

\* C9 (amended): a name <other>/<text> whose prefix is none of the seven
\* conventional ones and which does not start with a ticket token yields a task
\* identifier exactly when the renovate pattern or the general pattern of the
\* code matches it: renovate/<module> yields RENOVATE/<MODULE>
\* (renovate/requests -> RENOVATE/REQUESTS); any other prefix made of letters,
\* '_' and '-' followed by a text that starts with a letter, a digit, '_', '.'
\* or '-' yields the upper-cased leading run of such characters of the text
\* (release/v2 -> V2); every other such name (rel1/x, release/@x) yields 'no
\* task identifier'.
Thm_C9_RenovateAndGeneralRules ==
  (ExtractDone /\ OtherPrefixed(branch_name))
  => ExtractResult =
       IF RenovateShape(branch_name)
         THEN Some(StrUpper(BeforeSlash(branch_name) \o <<"/">>
                            \o FirstSegment(AfterSlash(branch_name))))
       ELSE IF GeneralShape(branch_name)
         THEN Some(StrUpper(SubSeq(AfterSlash(branch_name), 1,
                                   TokenRunLen(AfterSlash(branch_name)))))
       ELSE None

\* C9 witness: release/v2 has been extracted and yielded V2.
Wit_C9_ReleaseV2 ==
  /\ ExtractDone
  /\ branch_name = <<"r","e","l","e","a","s","e","/","v","2">>
  /\ ExtractResult = Some(<<"V","2">>)

\* str.swapcase() on ASCII text
StrSwapCase(s) ==
  [i \in 1..Len(s) |-> IF s[i] \in UpperLetters THEN LowerTable[s[i]] ELSE UpperTable[s[i]]]

\* C10: extraction ignores and normalises letter case: the branch name in lower
\* case, in upper case and with every letter's case swapped yields the result
\* of the branch name itself, and a result that is not None equals its own
\* upper-cased form.
Thm_C10_CaseInsensitiveUpperCased ==
  ExtractDone =>
    /\ ExtractResult = extract_task_name(StrLower(branch_name))
    /\ ExtractResult = extract_task_name(StrUpper(branch_name))
    /\ ExtractResult = extract_task_name(StrSwapCase(branch_name))
    /\ ~ExtractResult.is_none => ExtractResult.value = StrUpper(ExtractResult.value)

\* C10 witness: a branch name of mixed letter case has been extracted and
\* yielded an identifier that holds a letter.
Wit_C10_MixedCaseName ==
  /\ ExtractDone
  /\ branch_name # StrLower(branch_name)
  /\ branch_name # StrUpper(branch_name)
  /\ ~ExtractResult.is_none
  /\ ExtractResult.value # StrLower(ExtractResult.value)

-----------------------------------------------------------------------------
(* Properties of unify_prs as a function of its list, checked under         *)
(* SpecUnifyShuffle (C17) and under SpecUnifyList (C18, C19)                *)

\* the membership of a result: the set of <<label, ids of the members>>
Membership(tasks) == { <<tasks[i].task_name, MemberIds(tasks[i])>> : i \in 1..Len(tasks) }

\* the list l rearranged by the permutation p of its positions
Rearranged(l, p) == [i \in 1..Len(l) |-> l[p[i]]]

\* C17: unify_prs is idempotent and order-insensitive in membership:
\* unifying the same list again, or any permutation of it, yields the same
\* set of task labels and for each label the same set of member PRs.
Thm_C17_MembershipIgnoresOrder ==
  UnifyReturned =>
    \A p \in Permutations(1..Len(prs)) :
      Membership(unify_prs(Rearranged(prs, p))) = Membership(outcome.tasks)

\* three PRs were unified of which the first and the last form a group, so
\* that a rearrangement changes which members are adjacent
Wit_C17_GroupAroundStranger ==
  /\ UnifyReturned
  /\ Len(prs) = 3
  /\ \E t \in OutcomeTasks : MemberIds(t) = {1, 3}

\* task t is task-keyed: its label is the task identifier of its members
IsTaskKeyed(t) ==
  \A j \in 1..Len(t.prs) :
    Truthy(t.prs[j].task_name) /\ t.prs[j].task_name.value = t.task_name

\* C18: the list returned by unify_prs is all task-keyed groups in
\* ascending order of task identifier, followed by all branch-keyed groups
\* in ascending order of their "Branch: ..." label; no branch-keyed group
\* precedes a task-keyed group.
Thm_C18_TasksThenBranchesEachAscending ==
  UnifyReturned =>
    /\ \A i \in 1..Len(outcome.tasks) :
         IsTaskKeyed(outcome.tasks[i]) # IsBranchKeyed(outcome.tasks[i])
    /\ \A i, j \in 1..Len(outcome.tasks) :
         i < j =>
           /\ IsBranchKeyed(outcome.tasks[i]) => IsBranchKeyed(outcome.tasks[j])
           /\ IsBranchKeyed(outcome.tasks[i]) = IsBranchKeyed(outcome.tasks[j])
                => StrLess(outcome.tasks[i].task_name, outcome.tasks[j].task_name)

\* a task-keyed group whose identifier sorts behind "Branch: main" is
\* returned in front of the branch-keyed group of main
Wit_C18_TaskC3BeforeBranchMain ==
  /\ UnifyReturned
  /\ Len(outcome.tasks) = 2
  /\ outcome.tasks[1].task_name = <<"C","-","3">>
  /\ outcome.tasks[2].task_name = BranchLabel(<<"m","a","i","n">>)

\* the sum of the values vals[i] over the positions i in idx
RECURSIVE SumOver(_, _)
SumOver(vals, idx) ==
  IF idx = {} THEN 0
  ELSE LET i == CHOOSE k \in idx : TRUE
       IN  vals[i] + SumOver(vals, idx \ {i})

\* C19: for every UnifiedTask returned by unify_prs, total_changes is the
\* sum of changes_count over its member PRs and total_comments is the sum
\* of comments_count over its member PRs.
Thm_C19_TotalsAreMemberSums ==
  UnifyReturned =>
    \A t \in OutcomeTasks :
      /\ t.total_changes =
           SumOver([j \in 1..Len(t.prs) |-> t.prs[j].changes_count], 1..Len(t.prs))
      /\ t.total_comments =
           SumOver([j \in 1..Len(t.prs) |-> t.prs[j].comments_count], 1..Len(t.prs))

\* a group of members with different counts: 1 + 2 changes, 2 + 0 comments
Wit_C19_ThreeChangesTwoComments ==
  /\ UnifyReturned
  /\ \E t \in OutcomeTasks :
       /\ Len(t.prs) = 2
       /\ t.prs[1].changes_count # t.prs[2].changes_count
       /\ t.total_changes = 3
       /\ t.total_comments = 2

-----------------------------------------------------------------------------
(* PRService.fetch_prs and PRService._fetch_prs_for_repo                    *)

\* 'per_page': min(limit, 50)
PerPageCap == 50

\* max_workers = min(len(repo_urls), 10)
PoolCap == 10

Min(a, b) == IF a <= b THEN a ELSE b

\* the repository URLs a caller names
RepoUrls == {"https://gitlab.com/g/api", "https://gitlab.com/g/web"}

\* 'per_page': min(limit, 50)
PerPage(limit) == Min(limit, PerPageCap)

\* project.mergerequests.list(state='opened', per_page=..., page=1,
\* order_by='updated_at', sort='desc'): the forge answers with its first page
\* of the n_open open merge requests, here numbered by their rank
ForgePage(n_open, per_page) == [k \in 1..Min(n_open, per_page) |-> k]

\* l[:limit], limit >= 0
Slice(l, limit) == SubSeq(l, 1, Min(limit, Len(l)))

\* every open merge request listed, whatever the limit
MergeRequests_Unlimited(n_open, limit) == ForgePage(n_open, n_open)

\* merge_requests after the list call and the slice
MergeRequests(n_open, limit) == Slice(ForgePage(n_open, PerPage(limit)), limit)

\* the PR built from merge request mr of the repository at repo_url
RepoPR(repo_url, mr) == [repository_url |-> repo_url, iid |-> mr]

\* all_prs replaced by the list of the repository collected last
Extend_Overwrite(list, repo_prs_) == repo_prs_

\* all_prs.extend(repo_prs)
Extend(list, repo_prs_) == list \o repo_prs_

\* a submitted _fetch_prs_for_repo that no worker has picked up
Pending ==
  [ pc             |-> "pending",
    merge_requests |-> <<>>,
    repo_prs       |-> <<>>,
    logged_error   |-> FALSE,
    collected      |-> FALSE ]

\* the calls of _fetch_prs_for_repo that a worker thread is running
Running == { i \in 1..Len(futures) : futures[i].pc \in {"get_project", "list", "loop"} }

\* a pool of a single worker thread
max_workers_Single == Min(Len(repo_urls), 1)

\* max_workers = min(len(repo_urls), 10)
max_workers == Min(Len(repo_urls), PoolCap)

\* except Exception as e: logger.error(...); return repo_prs
Caught(future) == [future EXCEPT !.pc = "done", !.logged_error = TRUE]

\* neither extract_task_name nor unify_prs has been called
PrServiceIdle ==
  /\ branch_name = <<>>
  /\ extracted = NotCalled
  /\ prs = <<>>
  /\ call = "none"
  /\ full_load = FALSE
  /\ outcome = NoOutcome

\* fetch_prs(repo_urls, limit_per_repo) up to the submission of one
\* _fetch_prs_for_repo per URL
InitFetch ==
  /\ PrServiceIdle
  /\ repo_urls \in UNION { [1..n -> RepoUrls] : n \in 0..MaxRepos }
  /\ limit_per_repo \in 1..MaxLimit
  /\ futures = [i \in 1..Len(repo_urls) |-> Pending]
  /\ all_prs = <<>>
  /\ fetched = NotFetched
  /\ ZipIdle
  /\ AssembleIdle
  /\ RoutesIdle
  /\ LoopIdle
  /\ ClientIdle

\* ThreadPoolExecutor(max_workers=0) raises ValueError: the call with an
\* empty list of URLs ends with that exception
RaiseNoWorkers ==
  /\ fetched = NotFetched
  /\ max_workers = 0
  /\ fetched' = [kind |-> "raised", prs |-> <<>>]
  /\ UNCHANGED <<notFetchVars, repo_urls, limit_per_repo, futures, all_prs>>

\* a free worker thread of the pool starts the i-th _fetch_prs_for_repo
StartWorker(i) ==
  /\ fetched = NotFetched
  /\ futures[i].pc = "pending"
  /\ Cardinality(Running) < max_workers
  /\ futures' = [futures EXCEPT ![i].pc = "get_project"]
  /\ UNCHANGED <<notFetchVars, repo_urls, limit_per_repo, all_prs, fetched>>

\* project = self.get_project_from_url(repo_url): the project, or ValueError
\* for a repository that is unreachable or not found
GetProjectFromUrl(i, found) ==
  /\ futures[i].pc = "get_project"
  /\ futures' = [futures EXCEPT ![i] = IF found THEN [@ EXCEPT !.pc = "list"] ELSE Caught(@)]
  /\ UNCHANGED <<notFetchVars, repo_urls, limit_per_repo, all_prs, fetched>>

\* merge_requests = project.mergerequests.list(**query_params)[:limit], or
\* an API error of the list call
ListMergeRequests(i, n_open, api_ok) ==
  /\ futures[i].pc = "list"
  /\ futures' =
       [futures EXCEPT ![i] =
          IF api_ok
            THEN [@ EXCEPT !.pc = "loop",
                           !.merge_requests = MergeRequests(n_open, limit_per_repo)]
            ELSE Caught(@)]
  /\ UNCHANGED <<notFetchVars, repo_urls, limit_per_repo, all_prs, fetched>>

\* for mr in merge_requests: ... repo_prs.append(pr), then return repo_prs.
\* The loop builds the first `built` PRs; fewer than listed means that building
\* the next one raised, which is caught and the PRs built so far are returned.
\* The turns of the loop touch only the thread's own list, so they are one step.
ProcessMergeRequests(i, built) ==
  /\ futures[i].pc = "loop"
  /\ built \in 0..Len(futures[i].merge_requests)
  /\ futures' =
       [futures EXCEPT ![i] =
          [@ EXCEPT !.pc = "done",
                    !.repo_prs =
                      [k \in 1..built |-> RepoPR(repo_urls[i], futures[i].merge_requests[k])],
                    !.logged_error = built < Len(futures[i].merge_requests)]]
  /\ UNCHANGED <<notFetchVars, repo_urls, limit_per_repo, all_prs, fetched>>

\* for future in as_completed(future_to_url): repo_prs = future.result();
\* all_prs.extend(repo_prs). A finished future never holds an exception,
\* _fetch_prs_for_repo catches every Exception itself.
AsCompleted(i) ==
  /\ fetched = NotFetched
  /\ futures[i].pc = "done"
  /\ ~futures[i].collected
  /\ all_prs' = Extend(all_prs, futures[i].repo_prs)
  /\ futures' = [futures EXCEPT ![i].collected = TRUE]
  /\ UNCHANGED <<notFetchVars, repo_urls, limit_per_repo, fetched>>

\* return all_prs
ReturnAllPrs ==
  /\ fetched = NotFetched
  /\ max_workers > 0
  /\ \A i \in 1..Len(futures) : futures[i].collected
  /\ fetched' = [kind |-> "returned", prs |-> all_prs]
  /\ UNCHANGED <<notFetchVars, repo_urls, limit_per_repo, futures, all_prs>>

NextFetch ==
  \/ RaiseNoWorkers
  \/ \E i \in 1..Len(futures) : StartWorker(i)
  \/ \E i \in 1..Len(futures), found \in BOOLEAN : GetProjectFromUrl(i, found)
  \/ \E i \in 1..Len(futures), n_open \in 0..MaxOpenMRs, api_ok \in BOOLEAN :
       ListMergeRequests(i, n_open, api_ok)
  \/ \E i \in 1..Len(futures), built \in 0..MaxOpenMRs : ProcessMergeRequests(i, built)
  \/ \E i \in 1..Len(futures) : AsCompleted(i)
  \/ ReturnAllPrs

SpecFetch == InitFetch /\ [][NextFetch]_vars

-----------------------------------------------------------------------------
(* Properties of fetch_prs, checked under SpecFetch *)

\* fetch_prs returned its list
FetchReturned == fetched.kind = "returned"

\* the positions of the result that hold PRs of the repository at repo_url
FromRepo(repo_url) == { j \in 1..Len(fetched.prs) : fetched.prs[j].repository_url = repo_url }

\* how often repo_url is named in repo_urls
Occurrences(repo_url) == Cardinality({ i \in 1..Len(repo_urls) : repo_urls[i] = repo_url })

\* C11: for every non-empty list of repository URLs and every subset of
\* repositories whose fetch fails, fetch_prs raises no exception and its
\* result contains every pull request of every repository whose fetch
\* succeeded, under every interleaving of the worker threads.
Thm_C11_FailuresIsolated ==
  Len(repo_urls) > 0 =>
    /\ fetched.kind # "raised"
    /\ FetchReturned =>
         /\ \A i \in 1..Len(futures) :
              ~futures[i].logged_error =>
                \A k \in 1..Len(futures[i].merge_requests) :
                  \E j \in 1..Len(fetched.prs) :
                    fetched.prs[j] = RepoPR(repo_urls[i], futures[i].merge_requests[k])
         /\ \A r \in RepoUrls :
              Cardinality(FromRepo(r)) >=
                SumOver([i \in 1..Len(futures) |->
                           IF repo_urls[i] = r /\ ~futures[i].logged_error
                             THEN Len(futures[i].merge_requests) ELSE 0],
                        1..Len(futures))

\* two repositories were fetched, the one named first could not be reached,
\* the other one delivered its merge requests
Wit_C11_OneUnreachableOneDelivers ==
  /\ FetchReturned
  /\ Len(repo_urls) = 2
  /\ repo_urls[1] # repo_urls[2]
  /\ futures[1].logged_error /\ Len(futures[1].repo_prs) = 0
  /\ ~futures[2].logged_error /\ Len(futures[2].repo_prs) = 2
  /\ Len(fetched.prs) = 2

-----------------------------------------------------------------------------
(* create_zip_excluding_git_folders of backend/api/workspace_routes.py      *)
(*                                                                         *)
(* A path is the sequence of its names below the workspace directory; the  *)
(* workspace directory itself is the empty path.                           *)

\* the name of the workspace directory below root_dir
base_dir == "task_1700000000"

\* the name of a git directory
DotGit == ".git"

\* the files a workspace tree is made of: the workspace's own git directory,
\* its summary, a submodule with its own git directory (also one level
\* deeper), a submodule whose .git is a file
TreeFiles ==
  { <<DotGit, "HEAD">>, <<DotGit, "objects", "ab">>, <<DotGit, "modules", "api", "HEAD">>,
    <<"README.md">>,
    <<"api", "main.py">>, <<"api", DotGit, "HEAD">>, <<"api", "lib", DotGit, "config">>,
    <<"web", DotGit>> }

\* the empty directories a workspace tree may hold
TreeEmptyDirs == { <<"empty">>, <<"web", "docs">>, <<"api", DotGit, "refs">> }

\* the directories above path p, p itself excluded
Parents(p) == { SubSeq(p, 1, n) : n \in 1..(Len(p) - 1) }

\* the tree made of the files fs_ and the empty directories ds
TreeOf(fs_, ds) ==
  [ files |-> fs_,
    dirs  |-> ds \cup UNION { Parents(p) : p \in fs_ \cup ds } ]

Trees ==
  { TreeOf(fs_, ds) : fs_ \in { x \in SUBSET TreeFiles : Cardinality(x) <= MaxTreeFiles },
                      ds \in SUBSET TreeEmptyDirs }

\* the entries of `among` directly inside the directory dirpath
Inside(among, dirpath) ==
  { p \in among : Len(p) = Len(dirpath) + 1 /\ SubSeq(p, 1, Len(dirpath)) = dirpath }

\* every subdirectory is descended into
DescendInto_All(dirpath, dirnames) == dirnames

\* if '.git' in dirnames and dirpath != workspace_to_archive:
\*     dirnames.remove('.git')
DescendInto(dirpath, dirnames) ==
  IF Len(dirpath) # 0 THEN dirnames \ { Append(dirpath, DotGit) } ELSE dirnames

\* arcname = os.path.relpath(file_path_absolute, root_dir)
Arcname(p) == <<base_dir>> \o p

\* zf.write(file_path_absolute, arcname)
FileEntry(p) == [arcname |-> Arcname(p), is_dir |-> FALSE]

\* zf.writestr(zipfile.ZipInfo(arc_dir_path + '/'), '')
DirEntry(p) == [arcname |-> Arcname(p), is_dir |-> TRUE]

\* a variant that writes the files only
EntriesAt_FilesOnly(dirpath, filenames, dirnames) ==
  { FileEntry(p) : p \in filenames }

\* the entries written for one directory of the walk: its files, or the
\* directory itself if it has no file and no subdirectory left to descend into
EntriesAt(dirpath, filenames, dirnames) ==
  { FileEntry(p) : p \in filenames }
    \cup (IF filenames = {} /\ dirnames = {} THEN { DirEntry(dirpath) } ELSE {})

RECURSIVE Walk(_, _)
\* for dirpath, dirnames, filenames in os.walk(workspace_to_archive, topdown=True)
\* from dirpath downwards
Walk(t, dirpath) ==
  LET dirnames == DescendInto(dirpath, Inside(t.dirs, dirpath))
  IN  EntriesAt(dirpath, Inside(t.files, dirpath), dirnames)
        \cup UNION { Walk(t, d) : d \in dirnames }

\* the zip file of the tree t
create_zip_excluding_git_folders(t) == Walk(t, <<>>)

InitZip ==
  /\ PrServiceIdle
  /\ FetchIdle
  /\ AssembleIdle
  /\ RoutesIdle
  /\ LoopIdle
  /\ ClientIdle
  /\ tree \in Trees
  /\ archive = NotZipped

\* create_zip_excluding_git_folders(zip_file_path, root_dir, base_dir, logger)
CreateZip ==
  /\ ~archive.written
  /\ archive' = [written |-> TRUE, entries |-> create_zip_excluding_git_folders(tree)]
  /\ UNCHANGED <<notZipVars, tree>>

NextZip == CreateZip

SpecZip == InitZip /\ [][NextZip]_vars

-----------------------------------------------------------------------------
(* Properties of create_zip_excluding_git_folders, checked under SpecZip *)

\* the archive path p lies inside a .git directory that is below a
\* subdirectory of the workspace: p[1] is the workspace directory, so such a
\* .git is the third name of p or a later one
InsideNestedGit(p) == \E k \in 3..(Len(p) - 1) : p[k] = DotGit

\* C16: for every workspace tree, the archive contains no entry located
\* inside a '.git' directory that lies below a subdirectory of the workspace,
\* and contains every file of the workspace's own top-level '.git' directory.
Thm_C16_NestedGitLeftOutTopGitKept ==
  archive.written =>
    /\ \A e \in archive.entries : ~InsideNestedGit(e.arcname)
    /\ \A p \in tree.files : p[1] = DotGit /\ Len(p) > 1 => FileEntry(p) \in archive.entries

\* a workspace with its own git directory and a submodule that has only a
\* git directory of its own: the first is archived, the submodule is archived
\* as an empty directory
Wit_C16_SubmoduleWithOwnGit ==
  /\ archive.written
  /\ tree.files = { <<DotGit, "HEAD">>, <<DotGit, "modules", "api", "HEAD">>, <<"api", DotGit, "HEAD">> }
  /\ archive.entries =
       { FileEntry(<<DotGit, "HEAD">>), FileEntry(<<DotGit, "modules", "api", "HEAD">>),
         DirEntry(<<"api">>) }

-----------------------------------------------------------------------------
(* WorkspaceService.create_virtual_workspace and _add_submodule_parallel of *)
(* backend/services/workspace_service.py                                    *)
(*                                                                         *)
(* runs[r] is the local state of the r-th call of create_virtual_workspace; *)
(* fs maps the name of every directory below workspace_root to its content. *)
(* Names and URLs are strings, i.e. sequences of characters.                *)

\* max_workers = min(len(repo_urls), 6)
RegistrationPoolCap == 6

\* time.time() when the first run starts, in seconds
StartClock == 7

\* s.replace(a, b) for single characters a and b
ReplaceChar(s, a, b) == [i \in 1..Len(s) |-> IF s[i] = a THEN b ELSE s[i]]

RECURSIVE RemoveAll(_, _)
\* s.replace(pat, "")
RemoveAll(s, pat) ==
  IF Len(s) < Len(pat) THEN s
  ELSE IF SubSeq(s, 1, Len(pat)) = pat THEN RemoveAll(SubSeq(s, Len(pat) + 1, Len(s)), pat)
  ELSE <<s[1]>> \o RemoveAll(Tail(s), pat)

\* s.split("/")[-1]
LastSegment(s) ==
  LET slashes == { i \in 1..Len(s) : s[i] = Slash }
  IN  IF slashes = {} THEN s
      ELSE SubSeq(s, (CHOOSE i \in slashes : \A j \in slashes : j <= i) + 1, Len(s))

\* d.startswith(prefix)
StartsWith(d, prefix) == Len(d) >= Len(prefix) /\ SubSeq(d, 1, Len(prefix)) = prefix

\* repo_url.split("/")[-1].replace(".git", "")
RepoNameFromUrl(repo_url) == RemoveAll(LastSegment(repo_url), <<".","g","i","t">>)

\* name.replace('/', '_').replace(' ', '_')
SafeName(name) == ReplaceChar(ReplaceChar(name, Slash, "_"), " ", "_")

\* str(int(time.time())), the clock having one digit
UniqueSuffix(t) == <<Chr(48 + t)>>

\* f"{safe_name}_{unique_suffix}"
UniqueSafeName(safe_name, t) == safe_name \o <<"_">> \o UniqueSuffix(t)

\* random.randint(1000, 9999) as text: the two ends of the range
RandomSuffixes == { <<"1","0","0","0">>, <<"9","9","9","9">> }

\* f"{safe_name}_{unique_suffix}_{random.randint(1000, 9999)}"
RandomSafeName(safe_name, t, rnd) == UniqueSafeName(safe_name, t) \o <<"_">> \o rnd

\* the repository URLs a caller names: g/a.git, g/b, and h/a, which has the
\* last path component of the first
AssembleRepoUrls ==
  { <<"g","/","a",".","g","i","t">>, <<"g","/","b">>, <<"h","/","a">> }

\* the names a caller passes: no workspace name and task name "w x",
\* workspace name "w", workspace name "w/x"
NameArgs ==
  { [workspace_name |-> <<>>, task_name |-> <<"w"," ","x">>],
    [workspace_name |-> <<"w">>, task_name |-> <<"t">>],
    [workspace_name |-> <<"w","/","x">>, task_name |-> <<"t">>] }

\* the value create_virtual_workspace has not returned yet
NoResult ==
  [ status |-> "none", message |-> "", workspace_dir_path |-> <<>>, safe_name |-> <<>>,
    repo_count |-> 0, successful_repos |-> 0, failed_repos |-> 0 ]

\* {"status": "error", "message": ...}
ErrorResult(message) == [NoResult EXCEPT !.status = "error", !.message = message]

\* an exception that leaves create_virtual_workspace
RaisedResult(message) == [NoResult EXCEPT !.status = "raised", !.message = message]

\* a submitted _add_submodule_parallel that no worker has picked up
PendingRegistration == [pc |-> "pending", success |-> FALSE, collected |-> FALSE]

\* a call create_virtual_workspace(branch_name, task_name, repo_urls, workspace_name)
NewRun(names, urls) ==
  [ pc               |-> "begin",
    workspace_name   |-> names.workspace_name,
    task_name        |-> names.task_name,
    repo_urls        |-> urls,
    safe_name        |-> <<>>,
    unique_safe_name |-> <<>>,
    workers          |-> [i \in 1..Len(urls) |-> PendingRegistration],
    failed_repos     |-> <<>>,
    ignored          |-> {},
    staged           |-> "not run",
    committed        |-> "not run",
    result           |-> NoResult ]

\* the path ".gitmodules" in a workspace
GitModulesFile == <<".","g","i","t","m","o","d","u","l","e","s">>

\* the path "README.md" in a workspace
ReadmeFile == <<"R","E","A","D","M","E",".","m","d">>

\* os.makedirs(workspace_dir): an empty directory
NewDir(ctime) ==
  [ ctime       |-> ctime,
    initialized |-> FALSE,
    checked_out |-> FALSE,
    commits     |-> 0,
    gitmodules  |-> <<>>,
    submodules  |-> {},
    index       |-> {},
    readme      |-> [written |-> FALSE, included |-> <<>>, failed |-> <<>>] ]

\* os.path.exists(os.path.join(self.workspace_root, d))
Exists(d) == d \in DOMAIN fs

\* os.path.getctime of a directory made now: later than that of every other
NextCtime ==
  IF DOMAIN fs = {} THEN 1
  ELSE 1 + (CHOOSE c \in { fs[d].ctime : d \in DOMAIN fs } :
              \A d \in DOMAIN fs : fs[d].ctime <= c)

\* shutil.rmtree of the directories ds
Removed(ds) == [d \in DOMAIN fs \ ds |-> fs[d]]

\* the directory d made or replaced
Written(d, content) == [x \in DOMAIN fs \cup {d} |-> IF x = d THEN content ELSE fs[x]]

\* three workspaces of earlier attempts with the name "w", each committed
OldWorkspaces ==
  LET old(c) == [NewDir(c) EXCEPT !.initialized = TRUE, !.checked_out = TRUE, !.commits = 1]
  IN  [d \in { <<"w","_","3">>, <<"w","_","4">>, <<"w","_","5">> } |->
         old(IF d[3] = "3" THEN 1 ELSE IF d[3] = "4" THEN 2 ELSE 3)]

\* the manifest entry of a registered submodule
Stanza(repo_url) ==
  [name |-> RepoNameFromUrl(repo_url), url |-> repo_url, active |-> TRUE]

\* the manifest entry, commented out, of a repository that failed
CommentedStanza(repo_url) ==
  [name |-> RepoNameFromUrl(repo_url), url |-> repo_url, active |-> FALSE]

\* the state of run r replaced
Step(r, run) == runs' = [runs EXCEPT ![r] = run]

\* return {"status": "error", ...}
ReturnError(run, message) ==
  [run EXCEPT !.pc = "returned", !.result = ErrorResult(message)]

\* subprocess.run or open() in a workspace directory that does not exist
\* raises FileNotFoundError, which create_virtual_workspace does not catch
Raise(run) ==
  [run EXCEPT !.pc = "returned", !.result = RaisedResult("FileNotFoundError")]

\* the run is a direct call of the service, or the call made by
\* POST /workspace/create at lines 116-123 of workspace_routes.py
ServiceCalled(r) == IF r \in 1..Len(creates) THEN creates[r].pc = "calling" ELSE TRUE

\* lines 127-142: the early return for no repositories, safe_name,
\* unique_suffix and workspace_dir
Begin(r) ==
  /\ runs[r].pc = "begin"
  /\ ServiceCalled(r)
  /\ LET run  == runs[r]
         safe == SafeName(IF Len(run.workspace_name) > 0 THEN run.workspace_name
                          ELSE run.task_name)
     IN  Step(r, IF Len(run.repo_urls) = 0
                   THEN ReturnError(run, "No repositories provided")
                   ELSE [run EXCEPT !.pc = "check_exists",
                                    !.safe_name = safe,
                                    !.unique_safe_name = UniqueSafeName(safe, clock)])
  /\ UNCHANGED <<notAssembleVars, fs, clock>>

\* lines 146-155: an existing directory of this name is removed; if that
\* fails the name gets a random component
CheckExists(r, removed, rnd) ==
  /\ runs[r].pc = "check_exists"
  /\ LET run == runs[r]
         d   == run.unique_safe_name
     IN  IF ~Exists(d)
           THEN /\ Step(r, [run EXCEPT !.pc = "makedirs"])
                /\ fs' = fs
           ELSE IF removed
             THEN /\ Step(r, [run EXCEPT !.pc = "makedirs"])
                  /\ fs' = Removed({d})
             ELSE /\ Step(r, [run EXCEPT !.pc = "makedirs",
                                         !.unique_safe_name =
                                            RandomSafeName(run.safe_name, clock, rnd)])
                  /\ fs' = fs
  /\ UNCHANGED <<notAssembleVars, clock>>

\* lines 157-162: os.makedirs(workspace_dir), an error return if it raises
MakeDirs(r) ==
  /\ runs[r].pc = "makedirs"
  /\ LET run == runs[r]
         d   == run.unique_safe_name
     IN  IF Exists(d)
           THEN /\ Step(r, ReturnError(run, "Failed to create workspace directory"))
                /\ fs' = fs
           ELSE /\ Step(r, [run EXCEPT !.pc = "prune"])
                /\ fs' = Written(d, NewDir(NextCtime))
  /\ UNCHANGED <<notAssembleVars, clock>>

\* base_dirs: the other directories whose name starts with f"{safe_name}_"
BaseDirs(run) ==
  { d \in DOMAIN fs : StartsWith(d, run.safe_name \o <<"_">>) /\ d # run.unique_safe_name }

\* dirs_to_remove = base_dirs[:-2] if len(base_dirs) > 2 else [], base_dirs
\* sorted by creation time: all but the two created last
DirsToRemove(base_dirs) ==
  { d \in base_dirs : Cardinality({ e \in base_dirs : fs[e].ctime > fs[d].ctime }) >= 2 }

\* lines 164-188: old workspaces of the same base name are removed
PruneOld(r) ==
  /\ runs[r].pc = "prune"
  /\ fs' = Removed(DirsToRemove(BaseDirs(runs[r])))
  /\ Step(r, [runs[r] EXCEPT !.pc = "git_init"])
  /\ UNCHANGED <<notAssembleVars, clock>>

\* lines 191-193: git init --initial-branch=main
GitInit(r, ok) ==
  /\ runs[r].pc = "git_init"
  /\ LET run == runs[r]
         d   == run.unique_safe_name
     IN  IF ~Exists(d)
           THEN /\ Step(r, Raise(run))
                /\ fs' = fs
           ELSE IF ok
             THEN /\ Step(r, [run EXCEPT !.pc = "config"])
                  /\ fs' = [fs EXCEPT ![d].initialized = TRUE]
             ELSE /\ Step(r, ReturnError(run, "Failed to initialize git repository"))
                  /\ fs' = fs
  /\ UNCHANGED <<notAssembleVars, clock>>

\* lines 196-209: the git config commands; their results are not looked at.
\* They fail where there is no repository
GitConfig(r, ok) ==
  /\ runs[r].pc = "config"
  /\ LET run == runs[r]
     IN  Step(r, IF ~Exists(run.unique_safe_name) THEN Raise(run)
                 ELSE [run EXCEPT !.pc = "checkout",
                                  !.ignored =
                                     IF ok /\ fs[run.unique_safe_name].initialized THEN @
                                     ELSE @ \cup {"git config"}])
  /\ UNCHANGED <<notAssembleVars, fs, clock>>

\* lines 211-213: git checkout -b branch_name, which fails where there is no
\* repository
GitCheckout(r, ok) ==
  /\ runs[r].pc = "checkout"
  /\ LET run == runs[r]
         d   == run.unique_safe_name
     IN  IF ~Exists(d)
           THEN /\ Step(r, Raise(run))
                /\ fs' = fs
           ELSE IF ok /\ fs[d].initialized
             THEN /\ Step(r, [run EXCEPT !.pc = "register"])
                  /\ fs' = [fs EXCEPT ![d].checked_out = TRUE]
             ELSE /\ Step(r, ReturnError(run, "Failed to create branch"))
                  /\ fs' = fs
  /\ UNCHANGED <<notAssembleVars, clock>>

\* the registrations of run r that a worker thread is running
Registering(r) ==
  { i \in 1..Len(runs[r].workers) :
      runs[r].workers[i].pc \in {"clone", "fallback", "append", "stage"} }

\* the i-th registration of the run ended: return success, ..., or an exception
Registered(run, i, success) ==
  [run EXCEPT !.workers[i].pc = "done", !.workers[i].success = success]

\* a free worker thread of the pool starts the i-th _add_submodule_parallel
StartRegistration(r, i) ==
  /\ runs[r].pc = "register"
  /\ runs[r].workers[i].pc = "pending"
  /\ Cardinality(Registering(r)) < Min(Len(runs[r].repo_urls), RegistrationPoolCap)
  /\ Step(r, [runs[r] EXCEPT !.workers[i].pc = "clone"])
  /\ UNCHANGED <<notAssembleVars, fs, clock>>

\* lines 76-85: git clone --depth 1 ... repo_name_from_url in workspace_dir;
\* git refuses a destination that exists and is not empty
Clone(r, i, ok) ==
  /\ runs[r].workers[i].pc = "clone"
  /\ LET run  == runs[r]
         d    == run.unique_safe_name
         name == RepoNameFromUrl(run.repo_urls[i])
     IN  IF ~Exists(d)
           THEN /\ Step(r, Registered(run, i, FALSE))
                /\ fs' = fs
           ELSE IF ok /\ name \notin fs[d].submodules
             THEN /\ Step(r, [run EXCEPT !.workers[i].pc = "append"])
                  /\ fs' = [fs EXCEPT ![d].submodules = @ \cup {name}]
             ELSE /\ Step(r, [run EXCEPT !.workers[i].pc = "fallback"])
                  /\ fs' = fs
  /\ UNCHANGED <<notAssembleVars, clock>>

\* lines 86-98: the submodule path is removed if it exists, then
\* git submodule add, which writes the manifest entry and stages it; git
\* refuses a path that is in the index already, and fails where there is no
\* repository
Fallback(r, i, ok) ==
  /\ runs[r].workers[i].pc = "fallback"
  /\ LET run  == runs[r]
         d    == run.unique_safe_name
         name == RepoNameFromUrl(run.repo_urls[i])
     IN  IF ~Exists(d)
           THEN /\ Step(r, Registered(run, i, FALSE))
                /\ fs' = fs
           ELSE IF ok /\ fs[d].initialized /\ name \notin fs[d].index
             THEN /\ Step(r, Registered(run, i, TRUE))
                  /\ fs' = [fs EXCEPT ![d].submodules = @ \cup {name},
                                      ![d].gitmodules = Append(@, Stanza(run.repo_urls[i])),
                                      ![d].index = @ \cup {name, GitModulesFile}]
             ELSE /\ Step(r, Registered(run, i, FALSE))
                  /\ fs' = [fs EXCEPT ![d].submodules = @ \ {name}]
  /\ UNCHANGED <<notAssembleVars, clock>>

\* lines 101-107 and 116-118: the manifest entry is appended to .gitmodules;
\* an exception ends the registration with failure
AppendStanza(r, i, ok) ==
  /\ runs[r].workers[i].pc = "append"
  /\ LET run == runs[r]
         d   == run.unique_safe_name
     IN  IF Exists(d) /\ ok
           THEN /\ Step(r, [run EXCEPT !.workers[i].pc = "stage"])
                /\ fs' = [fs EXCEPT ![d].gitmodules = Append(@, Stanza(run.repo_urls[i]))]
           ELSE /\ Step(r, Registered(run, i, FALSE))
                /\ fs' = fs
  /\ UNCHANGED <<notAssembleVars, clock>>

\* lines 109-114: git add repo_name_from_url and git add .gitmodules, whose
\* results are not looked at, then return True
Stage(r, i, staged) ==
  /\ runs[r].workers[i].pc = "stage"
  /\ LET run  == runs[r]
         d    == run.unique_safe_name
         name == RepoNameFromUrl(run.repo_urls[i])
     IN  IF ~Exists(d)
           THEN /\ Step(r, Registered(run, i, FALSE))
                /\ fs' = fs
           ELSE /\ Step(r, Registered(run, i, TRUE))
                /\ fs' = IF staged /\ fs[d].initialized
                           THEN [fs EXCEPT ![d].index =
                                   @ \cup ({name} \cap fs[d].submodules) \cup {GitModulesFile}]
                           ELSE fs
  /\ UNCHANGED <<notAssembleVars, clock>>

\* lines 231-243: for future in as_completed(future_to_repo): a failed or
\* raising registration is appended to failed_repos
AsCompletedRegistration(r, i) ==
  /\ runs[r].pc = "register"
  /\ runs[r].workers[i].pc = "done"
  /\ ~runs[r].workers[i].collected
  /\ Step(r, [runs[r] EXCEPT
                !.workers[i].collected = TRUE,
                !.failed_repos = IF runs[r].workers[i].success THEN @
                                 ELSE Append(@, runs[r].repo_urls[i])])
  /\ UNCHANGED <<notAssembleVars, fs, clock>>

RECURSIVE CommentedStanzas(_)
\* gitmodules_additions
CommentedStanzas(failed) ==
  IF Len(failed) = 0 THEN <<>>
  ELSE <<CommentedStanza(Head(failed))>> \o CommentedStanzas(Tail(failed))

\* successful_repos as if no registration had failed
SuccessfulRepos_CountsAll(run) == Len(run.repo_urls)

\* successful_repos = len(repo_urls) - len(failed_repos)
SuccessfulRepos(run) == Len(run.repo_urls) - Len(run.failed_repos)

\* the with block of the executor has been left: every future has been
\* taken from as_completed, whatever its result
AllCollected_Whatever(run) == TRUE

\* lines 223-243: the with block of the executor is left when as_completed
\* has yielded every future, that is when every registration has ended
AllCollected(run) == \A i \in 1..Len(run.workers) : run.workers[i].collected

\* lines 248-278: every registration has been collected. No success at all is
\* an error return; otherwise the failed repositories are appended to
\* .gitmodules as comments, and a failure to write them is only logged
PartialFailures(r, written) ==
  /\ runs[r].pc = "register"
  /\ AllCollected(runs[r])
  /\ LET run == runs[r]
         d   == run.unique_safe_name
     IN  IF Len(run.failed_repos) > 0 /\ SuccessfulRepos(run) = 0
           THEN /\ Step(r, ReturnError(run, "Failed to add any submodules"))
                /\ fs' = fs
           ELSE IF Len(run.failed_repos) > 0 /\ (~written \/ ~Exists(d))
             THEN /\ Step(r, [run EXCEPT !.pc = "readme",
                                         !.ignored = @ \cup {"commented entries"}])
                  /\ fs' = fs
             ELSE /\ Step(r, [run EXCEPT !.pc = "readme"])
                  /\ fs' = IF Len(run.failed_repos) > 0
                             THEN [fs EXCEPT ![d].gitmodules =
                                     @ \o CommentedStanzas(run.failed_repos)]
                             ELSE fs
  /\ UNCHANGED <<notAssembleVars, clock>>

\* successful_repo_urls without the filter on failed_repos
SuccessfulRepoUrls_Unfiltered(run) == run.repo_urls

\* successful_repo_urls = [url for url in repo_urls if url not in failed_repos]
SuccessfulRepoUrls(run) ==
  SelectSeq(run.repo_urls,
            LAMBDA url : \A k \in 1..Len(run.failed_repos) : run.failed_repos[k] # url)

\* lines 280-312: README.md lists the successful and the failed
\* repositories; then the two helper scripts are written
WriteReadme(r) ==
  /\ runs[r].pc = "readme"
  /\ LET run == runs[r]
         d   == run.unique_safe_name
     IN  IF ~Exists(d)
           THEN /\ Step(r, Raise(run))
                /\ fs' = fs
           ELSE /\ Step(r, [run EXCEPT !.pc = "add"])
                /\ fs' = [fs EXCEPT ![d].readme =
                            [ written  |-> TRUE,
                              included |-> SuccessfulRepoUrls(run),
                              failed   |-> run.failed_repos ]]
  /\ UNCHANGED <<notAssembleVars, clock>>

\* what git add . puts into the index: everything in the working tree
WorkingTree(dir) ==
  dir.submodules
    \cup (IF Len(dir.gitmodules) > 0 THEN {GitModulesFile} ELSE {})
    \cup (IF dir.readme.written THEN {ReadmeFile} ELSE {})

\* lines 314-316: git add ., which fails where there is no repository
GitAddAll(r, ok) ==
  /\ runs[r].pc = "add"
  /\ LET run == runs[r]
         d   == run.unique_safe_name
     IN  IF ~Exists(d)
           THEN /\ Step(r, Raise(run))
                /\ fs' = fs
           ELSE IF ok /\ fs[d].initialized
             THEN /\ Step(r, [run EXCEPT !.pc = "commit", !.staged = "ok"])
                  /\ fs' = [fs EXCEPT ![d].index = WorkingTree(fs[d])]
             ELSE /\ Step(r, [ReturnError(run, "Failed to stage files for commit")
                                EXCEPT !.staged = "failed"])
                  /\ fs' = fs
  /\ UNCHANGED <<notAssembleVars, clock>>

\* a failed commit is an error whatever git reports
ProceedAfter_Never(output) == FALSE

\* if "nothing to commit" in output or "no changes added to commit" in output
ProceedAfter(output) == output \in {"nothing to commit", "no changes added to commit"}

\* what git commit -m ... reports: it fails where there is no repository,
\* with an empty index it fails with "nothing to commit", and otherwise it
\* commits or fails for another reason
CommitOutput(dir, ok) ==
  IF ~dir.initialized THEN "not a git repository"
  ELSE IF dir.index = {} THEN "nothing to commit"
  ELSE IF ok THEN "ok"
  ELSE "failed"

\* lines 318-327: git commit. A failure that reports "nothing to commit" is
\* not taken as an error; any other failure is
GitCommit(r, ok) ==
  /\ runs[r].pc = "commit"
  /\ LET run == runs[r]
         d   == run.unique_safe_name
     IN  IF ~Exists(d)
           THEN /\ Step(r, Raise(run))
                /\ fs' = fs
           ELSE LET output == CommitOutput(fs[d], ok)
                IN  /\ fs' = IF output = "ok" THEN [fs EXCEPT ![d].commits = @ + 1] ELSE fs
                    /\ Step(r, IF output = "ok" \/ ProceedAfter(output)
                                  THEN [run EXCEPT !.pc = "return", !.committed = output]
                                  ELSE [ReturnError(run, "Failed to commit changes")
                                          EXCEPT !.committed = output])
  /\ UNCHANGED <<notAssembleVars, clock>>

\* lines 329-346: return {"status": "success", ...}
ReturnSuccess(r) ==
  /\ runs[r].pc = "return"
  /\ LET run == runs[r]
     IN  Step(r, [run EXCEPT
                    !.pc = "returned",
                    !.result =
                      [ status             |-> "success",
                        message            |-> "Virtual workspace created successfully",
                        workspace_dir_path |-> run.unique_safe_name,
                        safe_name          |-> run.safe_name,
                        repo_count         |-> Len(run.repo_urls),
                        successful_repos   |-> SuccessfulRepos(run),
                        failed_repos       |-> Len(run.failed_repos) ]])
  /\ UNCHANGED <<notAssembleVars, fs, clock>>

\* a second passes
Tick ==
  /\ clock < StartClock + MaxTicks
  /\ clock' = clock + 1
  /\ UNCHANGED <<notAssembleVars, runs, fs>>

\* one step of one run
NextAssemble ==
  \/ \E r \in 1..Len(runs) : Begin(r)
  \/ \E r \in 1..Len(runs), removed \in BOOLEAN, rnd \in RandomSuffixes : CheckExists(r, removed, rnd)
  \/ \E r \in 1..Len(runs) : MakeDirs(r)
  \/ \E r \in 1..Len(runs) : PruneOld(r)
  \/ \E r \in 1..Len(runs), ok \in BOOLEAN : GitInit(r, ok)
  \/ \E r \in 1..Len(runs), ok \in BOOLEAN : GitConfig(r, ok)
  \/ \E r \in 1..Len(runs), ok \in BOOLEAN : GitCheckout(r, ok)
  \/ \E r \in 1..Len(runs) : \E i \in 1..Len(runs[r].workers) : StartRegistration(r, i)
  \/ \E r \in 1..Len(runs), ok \in BOOLEAN : \E i \in 1..Len(runs[r].workers) : Clone(r, i, ok)
  \/ \E r \in 1..Len(runs), ok \in BOOLEAN : \E i \in 1..Len(runs[r].workers) : Fallback(r, i, ok)
  \/ \E r \in 1..Len(runs), ok \in BOOLEAN : \E i \in 1..Len(runs[r].workers) : AppendStanza(r, i, ok)
  \/ \E r \in 1..Len(runs), staged \in BOOLEAN : \E i \in 1..Len(runs[r].workers) : Stage(r, i, staged)
  \/ \E r \in 1..Len(runs) : \E i \in 1..Len(runs[r].workers) : AsCompletedRegistration(r, i)
  \/ \E r \in 1..Len(runs), written \in BOOLEAN : PartialFailures(r, written)
  \/ \E r \in 1..Len(runs) : WriteReadme(r)
  \/ \E r \in 1..Len(runs), ok \in BOOLEAN : GitAddAll(r, ok)
  \/ \E r \in 1..Len(runs), ok \in BOOLEAN : GitCommit(r, ok)
  \/ \E r \in 1..Len(runs) : ReturnSuccess(r)

\* the lists of repository URLs of a call: any URLs, repeated ones included
RepoUrlLists == UNION { [1..n -> AssembleRepoUrls] : n \in 0..MaxRepos }

\* one call of create_virtual_workspace, three workspaces of earlier attempts
\* being below workspace_root
InitAssemble ==
  /\ PrServiceIdle
  /\ FetchIdle
  /\ ZipIdle
  /\ RoutesIdle
  /\ LoopIdle
  /\ ClientIdle
  /\ runs \in { <<NewRun(names, urls)>> : names \in NameArgs, urls \in RepoUrlLists }
  /\ fs = OldWorkspaces
  /\ clock = StartClock

SpecAssemble == InitAssemble /\ [][NextAssemble]_vars

\* two calls of create_virtual_workspace at the same time, each for one
\* repository, as two requests served by two processes of the service make them
InitAssembleTwice ==
  /\ PrServiceIdle
  /\ FetchIdle
  /\ ZipIdle
  /\ RoutesIdle
  /\ LoopIdle
  /\ ClientIdle
  /\ runs \in { <<NewRun(n1, <<u>>), NewRun(n2, <<u>>)>> :
                  n1 \in { [workspace_name |-> <<"w","/","x">>, task_name |-> <<"t">>] },
                  n2 \in NameArgs, u \in { <<"g","/","b">> } }
  /\ fs = <<>>
  /\ clock = StartClock

\* a step of either run, or a second passing
NextAssembleTwice == NextAssemble \/ Tick

SpecAssembleTwice == InitAssembleTwice /\ [][NextAssembleTwice]_vars

-----------------------------------------------------------------------------
(* Properties of one workspace assembly                                     *)

\* every registration of the run has ended
AllRegistered(run) == \A i \in 1..Len(run.workers) : run.workers[i].pc = "done"

\* the repositories whose registration returned success, and those whose
\* registration failed
RegisteredUrls(run) == { run.repo_urls[i] : i \in { j \in 1..Len(run.workers) : run.workers[j].success } }
FailedUrls(run) == { run.repo_urls[i] : i \in { j \in 1..Len(run.workers) : ~run.workers[j].success } }

\* the elements of a list
Elements(l) == { l[i] : i \in 1..Len(l) }

\* the URLs of the active, and of the commented-out, entries of a manifest
ActiveStanzas(gitmodules) == { gitmodules[k].url : k \in { j \in 1..Len(gitmodules) : gitmodules[j].active } }
CommentedOut(gitmodules) == { gitmodules[k].url : k \in { j \in 1..Len(gitmodules) : ~gitmodules[j].active } }

\* C13: when the registration of every requested repository has failed, the
\* run returns status "error", never "success", and its workspace has no commit
Thm_C13_AllFailedIsErrorWithoutCommit ==
  \A r \in 1..Len(runs) :
    LET run == runs[r]
    IN  (Len(run.repo_urls) > 0 /\ AllRegistered(run) /\ RegisteredUrls(run) = {})
          => /\ run.result.status # "success"
             /\ run.pc \notin {"readme", "add", "commit", "return"}
             /\ run.pc = "returned" => run.result = ErrorResult("Failed to add any submodules")
             /\ Exists(run.unique_safe_name) /\ fs[run.unique_safe_name].commits = 0

Wit_C13_BothRegistrationsFailed ==
  \E r \in 1..Len(runs) :
    /\ runs[r].pc = "returned"
    /\ Len(runs[r].repo_urls) = 2
    /\ AllRegistered(runs[r])
    /\ RegisteredUrls(runs[r]) = {}
    /\ runs[r].result.status = "error"
    /\ fs[runs[r].unique_safe_name].commits = 0

\* the run was given a set of repositories, some registrations failed and at
\* least one succeeded
PartlyRegistered(run) ==
  /\ AllRegistered(run)
  /\ Cardinality(Elements(run.repo_urls)) = Len(run.repo_urls)
  /\ RegisteredUrls(run) # {}
  /\ FailedUrls(run) # {}

\* C12: a run over a set of repositories of which some fail to register and
\* at least one registers returns status "success", unless staging or the
\* commit itself fails afterwards; README.md lists exactly the registered
\* repositories as included and exactly the failed ones as failed; .gitmodules
\* has an active entry exactly for the registered ones and, when the comment
\* block could be written, a commented-out entry exactly for the failed ones
Thm_C12_PartialFailureIsSuccess ==
  \A r \in 1..Len(runs) :
    LET run == runs[r]
        dir == fs[run.unique_safe_name]
    IN  (run.pc = "returned" /\ PartlyRegistered(run))
          => /\ \/ run.result.status = "success"
                \/ run.result \in { ErrorResult("Failed to stage files for commit"),
                                    ErrorResult("Failed to commit changes") }
             /\ dir.readme.written
             /\ Elements(dir.readme.included) = RegisteredUrls(run)
             /\ Elements(dir.readme.failed) = FailedUrls(run)
             /\ ActiveStanzas(dir.gitmodules) = RegisteredUrls(run)
             /\ CommentedOut(dir.gitmodules) =
                  IF "commented entries" \in run.ignored THEN {} ELSE FailedUrls(run)

Wit_C12_OneRegisteredOneFailed ==
  \E r \in 1..Len(runs) :
    LET run == runs[r]
        dir == fs[run.unique_safe_name]
    IN  /\ run.pc = "returned"
        /\ PartlyRegistered(run)
        /\ run.result.status = "success"
        /\ run.result.successful_repos = 1
        /\ run.result.failed_repos = 1
        /\ dir.commits = 1
        /\ Len(dir.readme.included) = 1
        /\ Len(dir.readme.failed) = 1
        /\ Cardinality(ActiveStanzas(dir.gitmodules)) = 1
        /\ CommentedOut(dir.gitmodules) = FailedUrls(run)

-----------------------------------------------------------------------------
(* Properties of two workspace assemblies at the same time                  *)

\* C15 as stated: any two runs compute different workspace directories
Cex_C15_RunsUseDifferentDirectories ==
  \A r1, r2 \in 1..Len(runs) :
    (r1 # r2 /\ runs[r1].unique_safe_name # <<>> /\ runs[r2].unique_safe_name # <<>>)
      => runs[r1].unique_safe_name # runs[r2].unique_safe_name

\* the directory d holds an initialized repository with one commit
CommittedWorkspace(dirs, d) ==
  /\ d \in DOMAIN dirs
  /\ dirs[d].initialized
  /\ dirs[d].commits = 1

\* C14 as stated: when a run returns a result, the directory at the
\* workspace_dir_path of the result exists and holds an initialized
\* repository with one commit exactly if the status returned is "success"
Cex_C14_CommittedWorkspaceIffSuccess ==
  [][\A r \in 1..Len(runs) :
       (runs[r].pc # "returned" /\ runs'[r].pc = "returned")
         => (CommittedWorkspace(fs', runs'[r].result.workspace_dir_path)
               <=> runs'[r].result.status = "success")]_vars

-----------------------------------------------------------------------------
(* Further properties of fetch_prs, checked under SpecFetch *)

\* C24 as stated: a repository whose fetch raised, wherever in its
\* processing, contributes no pull request
Cex_C24_RaisingFetchContributesNothing ==
  \A i \in 1..Len(futures) :
    (futures[i].pc = "done" /\ futures[i].logged_error) => Len(futures[i].repo_prs) = 0

-----------------------------------------------------------------------------
(* Properties of the steps of one workspace assembly *)

\* the registrations of the run that have appended their stanza to
\* .gitmodules and have not yet finished staging
InManifestSection(run) == { i \in 1..Len(run.workers) : run.workers[i].pc = "stage" }

\* C23 as stated: no two registration workers are at the same time inside
\* the section that appends to .gitmodules and stages the submodule
Cex_C23_OneWorkerInManifestSection ==
  \A r \in 1..Len(runs) : Cardinality(InManifestSection(runs[r])) <= 1

\* C26 as stated, for the configuration commands: when one of them has
\* failed the run returns status "error" and starts no registration
Cex_C26_FailedConfigIsFatal ==
  \A r \in 1..Len(runs) :
    "git config" \in runs[r].ignored
      => /\ \A i \in 1..Len(runs[r].workers) : runs[r].workers[i].pc = "pending"
         /\ runs[r].pc \in {"checkout", "returned"}
         /\ runs[r].pc = "returned" => runs[r].result.status = "error"

\* the phase of a run: 0 before git init has succeeded, 1 Init, 2
\* BranchCreated and SubmodulesRegistering, 3 the summary and the commit,
\* 4 Committed, 5 Done
Phase(run) ==
  CASE run.pc \in {"begin", "check_exists", "makedirs", "prune", "git_init"} -> 0
    [] run.pc \in {"config", "checkout"} -> 1
    [] run.pc = "register" -> 2
    [] run.pc \in {"readme", "add", "commit"} -> 3
    [] run.pc = "return" -> 4
    [] run.pc = "returned" -> 5

\* the run has started a registration
RegistrationStarted(run) == \E i \in 1..Len(run.workers) : run.workers[i].pc # "pending"

\* C28: a run never goes back to an earlier phase and returns "success" only
\* from the phase Committed; a registration has started only when git init and
\* the checkout of the branch have succeeded and the run has reached the
\* registration phase; while README.md is written, git add . and git commit
\* are run, and when "success" is returned, every registration has ended
Thm_C28_PhasesInOrder ==
  /\ [](\A r \in 1..Len(runs) :
          LET run == runs[r]
          IN  /\ RegistrationStarted(run)
                   => /\ Phase(run) >= 2
                      /\ fs[run.unique_safe_name].initialized
                      /\ fs[run.unique_safe_name].checked_out
              /\ (Phase(run) \in {3, 4} \/ run.result.status = "success"
                    \/ run.staged # "not run" \/ run.committed # "not run")
                   => AllRegistered(run))
  /\ [][\A r \in 1..Len(runs) :
          /\ Phase(runs'[r]) >= Phase(runs[r])
          /\ Phase(runs'[r]) \in {1, 2, 3, 4} => Phase(runs'[r]) <= Phase(runs[r]) + 1
          /\ runs'[r].result.status = "success" => Phase(runs[r]) >= 4]_vars

Wit_C28_CommittedAfterTwoRegistrations ==
  \E r \in 1..Len(runs) :
    /\ runs[r].pc = "return"
    /\ Len(runs[r].workers) = 2
    /\ AllRegistered(runs[r])
    /\ runs[r].committed = "ok"
    /\ fs[runs[r].unique_safe_name].commits = 1

-----------------------------------------------------------------------------
(* POST /workspace/create of backend/api/workspace_routes.py                *)
(*                                                                         *)
(* creates[r] is the state of the request whose service call is runs[r].    *)

\* a request that has arrived, with or without the X-Gitlab-Token header
NewCreate(token) ==
  [ pc                             |-> "received",
    x_gitlab_token                 |-> token,
    status_code                    |-> 0,
    workspace_dir_path_for_cleanup |-> <<>>,
    zip_file                       |-> FALSE,
    zip_file_path_for_cleanup      |-> FALSE,
    cleanup                        |-> "none" ]

\* raise HTTPException(status_code=...), re-raised at lines 179-180
Responded(create, status_code) ==
  [create EXCEPT !.pc = "responded", !.status_code = status_code]

\* lines 98-114: the token and the required fields are checked. branch_name
\* and task_name are given in every request here, repo_urls may be empty
ValidateRequest(r) ==
  /\ creates[r].pc = "received"
  /\ creates' =
       [creates EXCEPT ![r] =
          IF ~creates[r].x_gitlab_token THEN Responded(@, 401)
          ELSE IF Len(runs[r].repo_urls) = 0 THEN Responded(@, 400)
          ELSE [@ EXCEPT !.pc = "calling"]]
  /\ UNCHANGED <<notRouteVars, assembleVars, approval>>

\* cleanup_files, lines 18-25: shutil.rmtree(workspace_path) if the path is
\* set and exists; a failure of rmtree is logged
cleanup_files(dirs, workspace_path, removed) ==
  IF workspace_path # <<>> /\ workspace_path \in DOMAIN dirs /\ removed
    THEN [d \in DOMAIN dirs \ {workspace_path} |-> dirs[d]]
    ELSE dirs

\* lines 125-187: the service has returned or raised. An "error" result is
\* answered with status 500 at once; an exception of the service reaches the
\* last except clause, where no path is set yet; after "success" the zip file
\* is written, cleanup_files is added to the background tasks and the file is
\* sent, or, if writing the zip file raises, the directory is left and the
\* answer is status 500
Respond(r, zipped) ==
  /\ creates[r].pc = "calling"
  /\ runs[r].pc = "returned"
  /\ LET create == creates[r]
         result == runs[r].result
     IN  creates' =
           [creates EXCEPT ![r] =
              IF result.status = "error" THEN Responded(create, 500)
              ELSE IF result.status = "raised"
                THEN Responded(create, 500)
              ELSE IF zipped
                THEN [Responded(create, 200) EXCEPT
                        !.workspace_dir_path_for_cleanup = result.workspace_dir_path,
                        !.zip_file = TRUE,
                        !.zip_file_path_for_cleanup = TRUE,
                        !.cleanup = "scheduled"]
              ELSE [Responded(create, 500) EXCEPT
                      !.workspace_dir_path_for_cleanup = result.workspace_dir_path]]
  /\ UNCHANGED <<notRouteVars, assembleVars, approval>>

\* the background task added at line 165 runs after the response has been
\* sent: cleanup_files(workspace_dir_path_for_cleanup, zip_file_path_for_cleanup)
BackgroundCleanup(r, removed) ==
  /\ creates[r].pc = "responded"
  /\ creates[r].cleanup = "scheduled"
  /\ fs' = cleanup_files(fs, creates[r].workspace_dir_path_for_cleanup, removed)
  /\ creates' = [creates EXCEPT ![r].cleanup = "done",
                                ![r].zip_file = @ /\ ~creates[r].zip_file_path_for_cleanup]
  /\ UNCHANGED <<notRouteVars, runs, clock, approval>>

NextCreate ==
  \/ \E r \in 1..Len(creates) : ValidateRequest(r)
  \/ NextAssemble
  \/ \E r \in 1..Len(creates), zipped \in BOOLEAN : Respond(r, zipped)
  \/ \E r \in 1..Len(creates), removed \in BOOLEAN : BackgroundCleanup(r, removed)

\* one request, for no or one repository, below an empty workspace_root
InitCreate ==
  /\ PrServiceIdle
  /\ FetchIdle
  /\ ZipIdle
  /\ LoopIdle
  /\ ClientIdle
  /\ approval = NotApproving
  /\ runs \in { <<NewRun(names, urls)>> :
                  names \in NameArgs, urls \in { <<>>, << <<"g","/","b">> >> } }
  /\ creates \in { <<NewCreate(token)>> : token \in BOOLEAN }
  /\ fs = <<>>
  /\ clock = StartClock

SpecCreate == InitCreate /\ [][NextCreate]_vars

\* C21 as stated, for the error paths: when a request is answered with an
\* error, the workspace directory of its run is gone
Cex_C21_ErrorResponseLeavesNoDirectory ==
  \A r \in 1..Len(creates) :
    (creates[r].pc = "responded" /\ creates[r].status_code # 200)
      => ~Exists(runs[r].unique_safe_name)

-----------------------------------------------------------------------------
(* POST /prs/approve: approve_unified_prs of backend/api/pr_routes.py *)

\* the task names of fetched PRs: two tasks, and None for a branch without one
ApproveTaskNames == { Some(<<"A","-","1">>), Some(<<"B","-","2">>), None }

\* the PRs that fetch_prs returns to the route: any list of up to MaxPRs PRs
FetchedForApproval ==
  UNION { { [k \in 1..n |-> [iid |-> k, task_name |-> names[k]]] :
              names \in [1..n -> ApproveTaskNames] } : n \in 0..MaxPRs }

\* what can happen to one PR in the loop: get_project_from_url raises,
\* project.mergerequests.get raises, mr.approve() raises, or the PR is approved
ApproveOutcomes == { "no project", "no merge request", "not approved", "approved" }

\* task_prs = [pr for pr in prs if pr.task_name == task_name]
TaskPrs(fetched_prs, task_name) ==
  SelectSeq(fetched_prs, LAMBDA pr : pr.task_name = Some(task_name))

\* the loop as it would be without the try of line 126: an exception ends
\* the request with status 500
AfterAttempt_Unprotected(a, ended) ==
  IF ended = "approved"
    THEN [a EXCEPT !.attempts = Append(@, [pr |-> a.task_prs[Len(a.attempts) + 1],
                                           outcome |-> ended])]
    ELSE [a EXCEPT !.attempts = Append(@, [pr |-> a.task_prs[Len(a.attempts) + 1],
                                           outcome |-> ended]),
                   !.pc = "responded", !.status_code = 500]

\* lines 126-134: one turn of the loop; an exception is logged and the loop
\* continues with the next PR
AfterAttempt(a, ended) ==
  [a EXCEPT !.attempts = Append(@, [pr |-> a.task_prs[Len(a.attempts) + 1],
                                    outcome |-> ended])]

\* lines 111-122 and 137-139: the PRs are fetched and those of the task are
\* selected. If fetch_prs raises, or if there is none of the task (the
\* HTTPException with status 404 raised at line 122 is caught by the
\* except Exception of line 137), the answer has status 500
SelectTaskPrs(raised) ==
  /\ approval.pc = "called"
  /\ approval' =
       IF raised \/ Len(TaskPrs(approval.prs, approval.task_name)) = 0
         THEN [approval EXCEPT !.pc = "responded", !.status_code = 500,
                               !.prs = IF raised THEN <<>> ELSE @]
         ELSE [approval EXCEPT !.pc = "loop",
                               !.task_prs = TaskPrs(approval.prs, approval.task_name)]
  /\ UNCHANGED <<notRouteVars, assembleVars, creates>>

\* lines 125-134: for pr in task_prs, one turn
ApprovePr(ended) ==
  /\ approval.pc = "loop"
  /\ Len(approval.attempts) < Len(approval.task_prs)
  /\ approval' = AfterAttempt(approval, ended)
  /\ UNCHANGED <<notRouteVars, assembleVars, creates>>

\* line 136: return {"message": ...}
ReturnApproved ==
  /\ approval.pc = "loop"
  /\ Len(approval.attempts) = Len(approval.task_prs)
  /\ approval' = [approval EXCEPT !.pc = "responded", !.status_code = 200]
  /\ UNCHANGED <<notRouteVars, assembleVars, creates>>

NextApprove ==
  \/ \E raised \in BOOLEAN : SelectTaskPrs(raised)
  \/ \E ended \in ApproveOutcomes : ApprovePr(ended)
  \/ ReturnApproved

\* one request POST /prs/approve?task_name=A-1
InitApprove ==
  /\ PrServiceIdle
  /\ FetchIdle
  /\ ZipIdle
  /\ AssembleIdle
  /\ LoopIdle
  /\ ClientIdle
  /\ creates = <<>>
  /\ approval \in { [NotApproving EXCEPT !.pc = "called", !.task_name = <<"A","-","1">>,
                                         !.prs = l] : l \in FetchedForApproval }

SpecApprove == InitApprove /\ [][NextApprove]_vars

\* the positions of the fetched list that hold PRs of the requested task
Members == { k \in 1..Len(approval.prs) :
               approval.prs[k].task_name = Some(approval.task_name) }

\* C22: once the PRs of the task are selected, a request ends only when an
\* approval has been attempted for every fetched PR of the requested task,
\* one attempt each and in the order fetched, whatever the outcome of the
\* attempts before; no attempt is made for a PR of another task
Thm_C22_EveryMemberAttempted ==
  /\ Len(approval.attempts) <= Len(approval.task_prs)
  /\ \A k \in 1..Len(approval.attempts) : approval.attempts[k].pr = approval.task_prs[k]
  /\ approval.pc \in {"loop", "responded"} /\ Members # {}
       => /\ Len(approval.task_prs) = Cardinality(Members)
          /\ \A k \in Members : \E j \in 1..Len(approval.task_prs) :
               approval.task_prs[j] = approval.prs[k]
  /\ approval.pc = "responded" /\ Members # {}
       => /\ Len(approval.attempts) = Cardinality(Members)
          /\ approval.status_code = 200

Wit_C22_SecondAttemptedAfterFirstFailed ==
  /\ approval.pc = "responded"
  /\ approval.status_code = 200
  /\ Len(approval.attempts) = 2
  /\ approval.attempts[1].outcome = "not approved"
  /\ approval.attempts[2].outcome = "approved"
  /\ Len(approval.prs) = 3

-----------------------------------------------------------------------------
(* fetch_prs with one repository whose fetch is slow or never ends *)

\* the repository whose forge calls are slow or never return
SlowUrl == "https://gitlab.com/g/web"

\* the worker threads take the submitted calls from the executor's queue in
\* the order of submission: the i-th is started when all before it are
StartNextWorker(i) ==
  /\ i \in 1..Len(futures)
  /\ \A j \in 1..(i - 1) : futures[j].pc # "pending"
  /\ StartWorker(i)

\* _fetch_prs_for_repo from its first to its last line, for a repository
\* that is found and has no open merge request: it touches nothing but the
\* state of its own call, and what it returns has no bearing on the threads
FetchPrsForRepo(i) ==
  /\ i \in 1..Len(futures)
  /\ futures[i].pc = "get_project"
  /\ futures' = [futures EXCEPT ![i] =
                   [@ EXCEPT !.pc = "done",
                             !.merge_requests = MergeRequests(0, limit_per_repo)]]
  /\ UNCHANGED <<notFetchVars, repo_urls, limit_per_repo, all_prs, fetched>>

\* the worker threads of fetch_prs; the main thread waits in as_completed
NextFetchSlow ==
  \/ \E i \in 1..Len(futures) : StartNextWorker(i)
  \/ \E i \in 1..Len(futures) : FetchPrsForRepo(i)

\* the lists of n URLs of which exactly one is the slow repository, named
\* first, so that its fetch is started before all others, or last
SlowLists(n) ==
  { [i \in 1..n |-> IF i = slow THEN SlowUrl ELSE "https://gitlab.com/g/api"] : slow \in {1, n} }

\* fetch_prs(repo_urls) for up to MaxFetches repositories, one of them slow
InitFetchSlow ==
  /\ PrServiceIdle
  /\ repo_urls \in UNION { SlowLists(n) : n \in 1..MaxFetches }
  /\ limit_per_repo = 1
  /\ futures = [i \in 1..Len(repo_urls) |-> Pending]
  /\ all_prs = <<>>
  /\ fetched = NotFetched
  /\ ZipIdle
  /\ AssembleIdle
  /\ RoutesIdle
  /\ LoopIdle
  /\ ClientIdle

\* a free worker thread eventually takes the next call, and the fetch of every
\* repository but the slow one eventually ends; the slow one may never end
FairFetchSlow ==
  \A i \in 1..MaxFetches :
    /\ WF_vars(StartNextWorker(i))
    /\ WF_vars(i \in 1..Len(repo_urls) /\ repo_urls[i] # SlowUrl /\ FetchPrsForRepo(i))

SpecFetchSlow == InitFetchSlow /\ [][NextFetchSlow]_vars /\ FairFetchSlow

\* the fetches of all repositories but the slow one have ended
OthersFetched ==
  \A i \in 1..Len(futures) : repo_urls[i] # SlowUrl => futures[i].pc = "done"

\* C25: whatever the number of repositories, also one more than the pool
\* holds, and whether or not the fetch of the slow repository ever ends, the
\* fetch of every other repository is eventually started and ended
Thm_C25_SlowRepositoryBlocksNoOther == <>OthersFetched

Wit_C25_ElevenFetchesSlowOneRunning ==
  /\ Len(repo_urls) > PoolCap
  /\ OthersFetched
  /\ \E i \in 1..Len(futures) : repo_urls[i] = SlowUrl /\ futures[i].pc = "get_project"

\* ---------------------------------------------------------------------------
\* PRService._fetch_prs_for_repo, lines 134-184: the loop over the merge
\* requests listed for one repository, one turn per merge request. Each turn
\* extracts the task name, looks up the pipeline status, looks up the approval
\* details and appends a PR. mr_loop counts the forge API calls of the turns.
\* ---------------------------------------------------------------------------

\* the longest list of merge requests processed
MaxListed == 2

\* the fallback of lines 148-149 is two calls: project.mergerequests.get(iid)
\* and mr_for_pipeline.pipelines.list(...)
PipelineCallsPerLookup == 2

\* mr.source_branch of the listed merge requests: feature/A-1 and main
ListedBranches ==
  { <<"f","e","a","t","u","r","e","/","A","-","1">>, <<"m","a","i","n">> }

\* usernames on the forge
Alice == <<"a","l","i","c","e">>
Bob == <<"b","o","b">>

\* what the list view and the fallback hold for a merge request's pipeline:
\* head_pipeline with a status; no head_pipeline and a pipeline found by the
\* fallback; no head_pipeline and a fallback whose first call raises
PipelineKinds ==
  { [head_pipeline |-> TRUE, fallback |-> "found"],
    [head_pipeline |-> FALSE, fallback |-> "found"],
    [head_pipeline |-> FALSE, fallback |-> "get raises"] }

\* what GET /projects/:id/merge_requests/:iid/approvals answers: an error, or
\* approved_by, whose entries carry a user (Some(username)) or none (None)
ApprovalKinds ==
  { [raises |-> TRUE, approved_by |-> <<>>],
    [raises |-> FALSE, approved_by |-> <<>>],
    [raises |-> FALSE, approved_by |-> <<Some(Bob)>>],
    [raises |-> FALSE, approved_by |-> <<None, Some(Bob), Some(Alice)>>] }

\* the merge requests a repository may list
ListedMR(iid, source_branch, pipeline, approvals) ==
  [iid |-> iid, source_branch |-> source_branch, pipeline |-> pipeline,
   approvals |-> approvals]

\* a variant in which a failed fallback leaves a status behind
PipelineLookup_StatusOnFailure(mr, include_pipeline_status) ==
  IF ~include_pipeline_status
    THEN [pipeline_status |-> "None", calls |-> 0]
  ELSE IF mr.pipeline.head_pipeline
    THEN [pipeline_status |-> "head_pipeline status", calls |-> 0]
  ELSE IF mr.pipeline.fallback = "get raises"
    THEN [pipeline_status |-> "pipelines[0].status", calls |-> 1]
  ELSE [pipeline_status |-> "pipelines[0].status", calls |-> PipelineCallsPerLookup]

\* lines 137-156: the pipeline status of one merge request and the number of
\* forge API calls made for it
PipelineLookup(mr, include_pipeline_status) ==
  IF ~include_pipeline_status
    THEN [pipeline_status |-> "None", calls |-> 0]
  ELSE IF mr.pipeline.head_pipeline
    THEN [pipeline_status |-> "head_pipeline status", calls |-> 0]
  ELSE IF mr.pipeline.fallback = "get raises"
    THEN [pipeline_status |-> "None", calls |-> 1]
  ELSE IF mr.pipeline.fallback = "found"
    THEN [pipeline_status |-> "pipelines[0].status", calls |-> PipelineCallsPerLookup]
  ELSE [pipeline_status |-> "None", calls |-> PipelineCallsPerLookup]

\* lines 81-85: the users of the entries of approved_by that carry one
RECURSIVE ApproversList(_)
ApproversList(approved_by) ==
  IF approved_by = <<>> THEN <<>>
  ELSE IF Head(approved_by).is_none THEN ApproversList(Tail(approved_by))
  ELSE <<Head(approved_by).value>> \o ApproversList(Tail(approved_by))

\* get_pr_approval_details, lines 68-99
get_pr_approval_details(mr, current_username) ==
  IF mr.approvals.raises
    THEN [user_has_approved |-> FALSE, approvers |-> <<>>]
    ELSE LET approvers_list == ApproversList(mr.approvals.approved_by)
         IN [user_has_approved |->
               /\ Truthy(current_username)
               /\ \E k \in 1..Len(approvers_list) :
                    approvers_list[k] = current_username.value,
             approvers |-> approvers_list]

\* a variant that looks the approvals up for every merge request
NeedsApprovalLookup_Always(task_name) == TRUE

\* line 160: if task_name
NeedsApprovalLookup(task_name) == Truthy(task_name)

\* one turn of the loop, lines 135-184
ProcessListedMR ==
  /\ ~mr_loop.done
  /\ Len(mr_loop.repo_prs) < Len(mr_list.merge_requests)
  /\ LET mr == mr_list.merge_requests[Len(mr_loop.repo_prs) + 1]
         task_name == extract_task_name(mr.source_branch)
         pipeline == PipelineLookup(mr, mr_list.include_pipeline_status)
         looked_up == NeedsApprovalLookup(task_name)
         approval_details ==
           IF looked_up
             THEN get_pr_approval_details(mr, mr_list.current_username)
             ELSE [user_has_approved |-> FALSE, approvers |-> <<>>]
     IN mr_loop' =
          [mr_loop EXCEPT
             !.repo_prs = Append(@, [iid |-> mr.iid,
                                     source_branch |-> mr.source_branch,
                                     task_name |-> task_name,
                                     pipeline_status |-> pipeline.pipeline_status,
                                     user_has_approved |-> approval_details.user_has_approved,
                                     approvers |-> approval_details.approvers]),
             !.pipeline_calls = @ + pipeline.calls,
             !.approval_calls = IF looked_up THEN Append(@, mr.iid) ELSE @]
  /\ UNCHANGED <<notLoopVars, mr_list>>

\* line 188: return repo_prs
ReturnRepoPrs ==
  /\ ~mr_loop.done
  /\ Len(mr_loop.repo_prs) = Len(mr_list.merge_requests)
  /\ mr_loop' = [mr_loop EXCEPT !.done = TRUE]
  /\ UNCHANGED <<notLoopVars, mr_list>>

NextLoop == ProcessListedMR \/ ReturnRepoPrs

\* every list of up to MaxListed merge requests, with and without an
\* authenticated user, with and without include_pipeline_status
InitLoop ==
  /\ PrServiceIdle
  /\ FetchIdle
  /\ ZipIdle
  /\ AssembleIdle
  /\ RoutesIdle
  /\ ClientIdle
  /\ \E n \in 0..MaxListed :
       \E source_branch \in [1..n -> ListedBranches],
          pipeline \in [1..n -> PipelineKinds],
          approvals \in [1..n -> ApprovalKinds],
          current_username \in {None, Some(Alice)},
          include_pipeline_status \in BOOLEAN :
         mr_list = [merge_requests |->
                      [k \in 1..n |-> ListedMR(k, source_branch[k], pipeline[k],
                                               approvals[k])],
                    current_username |-> current_username,
                    include_pipeline_status |-> include_pipeline_status]
  /\ mr_loop = NotLooped

SpecLoop == InitLoop /\ [][NextLoop]_vars

\* C29: with include_pipeline_status the pipeline-related forge API calls made
\* for one repository stay within the calls of one lookup, however many merge
\* requests the repository lists.
Cex_C29_PipelineCallsBoundedPerRepository ==
  mr_list.include_pipeline_status =>
    mr_loop.pipeline_calls <= PipelineCallsPerLookup

\* the approval API has been called for the merge request iid
ApprovalCalled(iid) ==
  \E k \in 1..Len(mr_loop.approval_calls) : mr_loop.approval_calls[k] = iid

\* the current username occurs among the users of the approved_by list that
\* the approval API returned for mr
UsernameInApprovedBy(mr) ==
  /\ ~mr.approvals.raises
  /\ ~mr_list.current_username.is_none
  /\ \E k \in 1..Len(mr.approvals.approved_by) :
       mr.approvals.approved_by[k] = Some(mr_list.current_username.value)

\* C30: a merge request whose source branch yields no task identifier gets no
\* approval API call, user_has_approved = false and no approvers; an approval
\* lookup is made only for merge requests with a task identifier, and then
\* user_has_approved is true exactly when the current username occurs in the
\* returned approved_by list.
Thm_C30_ApprovalOnlyForTasks ==
  \A k \in 1..Len(mr_loop.repo_prs) :
    LET mr == mr_list.merge_requests[k]
        pr == mr_loop.repo_prs[k]
    IN IF extract_task_name(mr.source_branch).is_none
         THEN /\ ~ApprovalCalled(mr.iid)
              /\ pr.user_has_approved = FALSE
              /\ pr.approvers = <<>>
         ELSE /\ ApprovalCalled(mr.iid)
              /\ pr.user_has_approved = UsernameInApprovedBy(mr)

\* C30 witness: the loop has returned; main, approved by alice on the forge,
\* was not looked up, and feature/A-1, approved by bob and alice, is approved
\* by the current user alice.
Wit_C30_TaskLookedUpMainNot ==
  /\ mr_loop.done
  /\ mr_list.current_username = Some(Alice)
  /\ Len(mr_loop.repo_prs) = 2
  /\ mr_loop.repo_prs[1].source_branch = <<"m","a","i","n">>
  /\ UsernameInApprovedBy(mr_list.merge_requests[1])
  /\ ~mr_loop.repo_prs[1].user_has_approved
  /\ mr_loop.repo_prs[2].task_name = Some(<<"A","-","1">>)
  /\ mr_loop.approval_calls = <<2>>
  /\ mr_loop.repo_prs[2].user_has_approved
  /\ mr_loop.repo_prs[2].approvers = <<Bob, Alice>>

\* the pipeline lookup of mr was made and failed (lines 148, 155-156)
PipelineLookupFailed(mr) ==
  /\ mr_list.include_pipeline_status
  /\ ~mr.pipeline.head_pipeline
  /\ mr.pipeline.fallback = "get raises"

\* the approval lookup of mr was made and failed (lines 79, 96-97)
ApprovalLookupFailed(mr) ==
  /\ ApprovalCalled(mr.iid)
  /\ mr.approvals.raises

gl_url == <<"h","t","t","p","s",":","/","/","g","i","t","l","a","b",".","c","o","m">>

DotGitSuffix == <<".","g","i","t">>

\* str.rstrip(chars): the trailing characters that are in chars are removed
RECURSIVE RStrip(_, _)
RStrip(s, chars) ==
  IF s # <<>> /\ s[Len(s)] \in chars
    THEN RStrip(SubSeq(s, 1, Len(s) - 1), chars)
    ELSE s

\* str.lstrip(chars): the leading characters that are in chars are removed
RECURSIVE LStrip(_, _)
LStrip(s, chars) ==
  IF s # <<>> /\ Head(s) \in chars THEN LStrip(Tail(s), chars) ELSE s

\* the first index at or after from at which sep occurs in s, 0 if there is none
Find(s, sep, from) ==
  LET found == { i \in from..(Len(s) - Len(sep) + 1) :
                   SubSeq(s, i, i + Len(sep) - 1) = sep }
  IN IF found = {} THEN 0 ELSE CHOOSE i \in found : \A j \in found : i <= j

\* s.split(sep)[1]: the text between the first occurrence of sep and the next
\* one; None stands for the IndexError raised when sep does not occur
SplitSecond(s, sep) ==
  LET first == Find(s, sep, 1)
      start == first + Len(sep)
      next == Find(s, sep, start)
  IN IF first = 0 THEN None
     ELSE IF next = 0 THEN Some(SubSeq(s, start, Len(s)))
     ELSE Some(SubSeq(s, start, next - 1))

\* line 60: repo_url.rstrip('/').rstrip('.git'); the argument of rstrip is a
\* set of characters
StrippedUrl(repo_url) == RStrip(RStrip(repo_url, {Slash}), {".", "g", "i", "t"})

\* line 61: repo_url.split(self.gl.url)[1].lstrip('/')
ProjectPath(repo_url) ==
  LET second == SplitSecond(StrippedUrl(repo_url), gl_url)
  IN IF second.is_none THEN None ELSE Some(LStrip(second.value, {Slash}))

\* get_project_from_url as a whole: the path is handed to gl.projects.get,
\* which finds the project or raises; every exception becomes ValueError
get_project_from_url(found) ==
  /\ project_lookup.pc = "called"
  /\ LET path == ProjectPath(project_lookup.repo_url)
     IN project_lookup' =
          IF path.is_none
            THEN [project_lookup EXCEPT !.pc = "raised"]
            ELSE [project_lookup EXCEPT
                    !.pc = IF found THEN "returned" ELSE "raised",
                    !.path = path.value]
  /\ UNCHANGED <<notClientVars, gl_init>>

NextProject == \E found \in BOOLEAN : get_project_from_url(found)

\* the groups and projects of the URLs resolved
UrlGroups == { <<"o","r","g">>, <<"g">> }
UrlProjects ==
  { <<"w","i","d","g","e","t">>, <<"w","e","b">>, <<"a","p","i">>,
    <<"d","i","g","i","t">>, <<"k","i","t">>, <<"t">> }

\* what follows the project in the URL
UrlTails == { <<>>, <<Slash>>, DotGitSuffix, DotGitSuffix \o <<Slash>> }

\* URLs under the base URL, with and without a group, and one of another forge
ProjectUrls ==
  { gl_url \o <<Slash>> \o g \o <<Slash>> \o p \o t :
      g \in UrlGroups, p \in UrlProjects, t \in UrlTails }
  \cup { gl_url \o <<Slash>> \o p \o t : p \in UrlProjects, t \in UrlTails }
  \cup { <<"h","t","t","p","s",":","/","/","h","u","b",".","i","o","/","g","/","w","e","b">> }

InitProject ==
  /\ PrServiceIdle
  /\ FetchIdle
  /\ ZipIdle
  /\ AssembleIdle
  /\ RoutesIdle
  /\ LoopIdle
  /\ gl_init = NotImported
  /\ \E repo_url \in ProjectUrls :
       project_lookup = [pc |-> "called", repo_url |-> repo_url, path |-> <<>>]

SpecProject == InitProject /\ [][NextProject]_vars

\* s.endswith(suffix)
EndsWith(s, suffix) ==
  Len(s) >= Len(suffix) /\ SubSeq(s, Len(s) - Len(suffix) + 1, Len(s)) = suffix

\* the path of a URL under the base URL, without its trailing slashes
UrlPath(repo_url) ==
  LET trimmed == RStrip(repo_url, {Slash})
  IN SubSeq(trimmed, Len(gl_url) + 2, Len(trimmed))

\* C32: for a URL under the base URL whose path does not end in '.git', the
\* path that get_project_from_url hands to the forge is the URL's path with
\* nothing removed but the trailing slash.
Cex_C32_PathKeptButTrailingSlash ==
  ( /\ project_lookup.pc \in {"returned", "raised"}
    /\ StartsWith(project_lookup.repo_url, gl_url \o <<Slash>>)
    /\ ~EndsWith(UrlPath(project_lookup.repo_url), DotGitSuffix) )
  => project_lookup.path = UrlPath(project_lookup.repo_url)

\* ---------------------------------------------------------------------------
\* config.py, lines 16-94: the initialization of the GitLab client when the
\* module is imported. gl_init holds what the environment and the forge
\* answer (token, status_code, body, auth) and how far the module has run.
\* ---------------------------------------------------------------------------

\* response.status_code of GET /api/v4/user
IdentityStatusCodes == {200, 204, 401, 403, 500}

\* the body of the response: a JSON object or text that is not JSON
IdentityBodies == {"json object", "not json"}

\* gl.auth(): returns the user, returns None or raises
AuthOutcomes == {"user", "None", "raises"}

\* the module has raised: gl_init.raised names the exception that leaves it
ImportRaised(exception) ==
  gl_init' = [gl_init EXCEPT !.pc = "raised", !.raised = exception]

\* lines 16-18: GITLAB_TOKEN must be set
GetToken ==
  /\ gl_init.pc = "token"
  /\ IF gl_init.token
       THEN gl_init' = [gl_init EXCEPT !.pc = "get"]
       ELSE ImportRaised("ValueError")
  /\ UNCHANGED <<notClientVars, project_lookup>>

\* lines 33-37, 72-74: requests.get(.../api/v4/user); a network error leaves
\* the module as RuntimeError
RequestsGet ==
  /\ gl_init.pc = "get"
  /\ IF gl_init.network_ok
       THEN gl_init' = [gl_init EXCEPT !.pc = "status"]
       ELSE ImportRaised("RuntimeError")
  /\ UNCHANGED <<notClientVars, project_lookup>>

\* lines 39-41, 66-70, 76-88: status 200 and a body that response.json() and
\* user_info.get accept lead on to the client; every other answer raises
\* inside the try block and leaves the module as RuntimeError
CheckStatus ==
  /\ gl_init.pc = "status"
  /\ IF gl_init.status_code = 200 /\ gl_init.body = "json object"
       THEN gl_init' = [gl_init EXCEPT !.pc = "client"]
       ELSE ImportRaised("RuntimeError")
  /\ UNCHANGED <<notClientVars, project_lookup>>

\* lines 44-48: gl = gitlab.Gitlab(url, private_token, timeout)
MakeClient ==
  /\ gl_init.pc = "client"
  /\ gl_init' = [gl_init EXCEPT !.pc = "auth", !.gl = "Gitlab"]
  /\ UNCHANGED <<notClientVars, project_lookup>>

\* a variant in which gl.auth() has to return the user
AfterAuth_Strict(auth) == IF auth = "user" THEN "final" ELSE "raised"

\* lines 54-65: whatever gl.auth() does, the module goes on
AfterAuth(auth) == "final"

\* lines 54-65: gl.auth() as secondary verification
Auth ==
  /\ gl_init.pc = "auth"
  /\ IF AfterAuth(gl_init.auth) = "final"
       THEN gl_init' = [gl_init EXCEPT !.pc = "final"]
       ELSE ImportRaised("RuntimeError")
  /\ UNCHANGED <<notClientVars, project_lookup>>

\* lines 91-94: the final check of gl
FinalCheck ==
  /\ gl_init.pc = "final"
  /\ IF gl_init.gl = "None"
       THEN ImportRaised("RuntimeError")
       ELSE gl_init' = [gl_init EXCEPT !.pc = "initialized"]
  /\ UNCHANGED <<notClientVars, project_lookup>>

NextConfig ==
  GetToken \/ RequestsGet \/ CheckStatus \/ MakeClient \/ Auth \/ FinalCheck

\* every environment and every answer of the forge
InitConfig ==
  /\ PrServiceIdle
  /\ FetchIdle
  /\ ZipIdle
  /\ AssembleIdle
  /\ RoutesIdle
  /\ LoopIdle
  /\ project_lookup = NotLookedUp
  /\ \E token \in BOOLEAN, network_ok \in BOOLEAN,
        status_code \in IdentityStatusCodes, body \in IdentityBodies,
        auth \in AuthOutcomes :
       gl_init = [pc |-> "token", token |-> token, network_ok |-> network_ok,
                  status_code |-> status_code, body |-> body, auth |-> auth,
                  gl |-> "None", raised |-> "none"]

SpecConfig == InitConfig /\ [][NextConfig]_vars

\* the module has been left, by its last line or by an exception
ImportEnded == gl_init.pc \in {"initialized", "raised"}

\* the identity-check call was made and answered
IdentityAnswered == ImportEnded /\ gl_init.token /\ gl_init.network_ok

\* the client is available to the importing modules
ClientAvailable == gl_init.pc = "initialized" /\ gl_init.gl = "Gitlab"

\* the import failed with the authentication failure of lines 84 and 88
AuthenticationFailed ==
  gl_init.pc = "raised" /\ gl_init.raised = "RuntimeError" /\ gl_init.gl = "None"

\* C33 as stated: the client is made whenever the identity-check call answers
\* with a success status (2xx), whatever gl.auth() does; the import fails with
\* an authentication failure whenever it answers with another status; no
\* client is available after a failed identity check.
Cex_C33_SuccessStatusMakesClient ==
  IdentityAnswered =>
    IF gl_init.status_code \in 200..299
      THEN ClientAvailable
      ELSE AuthenticationFailed

\* C33, amended: the client is made whenever the identity-check call answers
\* with status 200 and a JSON object, whatever gl.auth() does; the import
\* fails with an authentication failure on every other answer, 2xx statuses
\* other than 200 included; a client is made only after such an answer.
Thm_C33_Status200WithUserMakesClient ==
  /\ IdentityAnswered =>
       IF gl_init.status_code = 200 /\ gl_init.body = "json object"
         THEN ClientAvailable
         ELSE AuthenticationFailed
  /\ gl_init.gl = "Gitlab" =>
       /\ gl_init.status_code = 200
       /\ gl_init.body = "json object"
       /\ gl_init.pc # "raised"

\* C33 witness: the import has ended with a client although gl.auth() raised.
Wit_C33_ClientAlthoughAuthRaised ==
  /\ ClientAvailable
  /\ gl_init.status_code = 200
  /\ gl_init.auth = "raises"

\* the directory d is a '.git' directory below a subdirectory of the
\* workspace, or lies inside one: the walk does not reach it
InExcludedGit(d) == \E k \in 2..Len(d) : d[k] = DotGit

\* the directory d holds no file, and no subdirectory but possibly its own
\* '.git' directory, which the walk leaves out
EmptyOnceGitIsExcluded(d) ==
  /\ Inside(tree.files, d) = {}
  /\ Inside(tree.dirs, d) \subseteq (IF Len(d) # 0 THEN { Append(d, DotGit) } ELSE {})

\* C34: the archive has an explicit directory entry for every directory of
\* the workspace that holds no files and no subdirectories, also when it is
\* empty only because its nested '.git' directory was excluded. The
\* directories are those the walk reaches: what lies inside an excluded
\* '.git' is left out altogether.
Thm_C34_EmptyDirectoriesHaveEntries ==
  archive.written =>
    \A d \in tree.dirs \cup {<<>>} :
      ~InExcludedGit(d) /\ EmptyOnceGitIsExcluded(d) =>
        DirEntry(d) \in archive.entries

\* C34 witness: api holds nothing but its own git directory and empty holds
\* nothing at all; both are in the archive as directory entries.
Wit_C34_EmptyAndGitOnlyDirectories ==
  /\ archive.written
  /\ tree.files = { <<"README.md">>, <<"api", DotGit, "HEAD">> }
  /\ <<"empty">> \in tree.dirs
  /\ <<"api", DotGit, "refs">> \in tree.dirs
  /\ DirEntry(<<"api">>) \in archive.entries
  /\ DirEntry(<<"empty">>) \in archive.entries
  /\ DirEntry(<<"api", DotGit, "refs">>) \notin archive.entries

\* C35: when no fetched PR has a task identifier equal to the requested task
\* name, POST /prs/approve responds with 404 and attempts no approval.
Cex_C35_NoMemberIsNotFound ==
  ( /\ approval.pc = "responded"
    /\ approval.prs # <<>>
    /\ Members = {} )
  => /\ approval.status_code = 404
     /\ approval.attempts = <<>>

\* the positions of the requested URLs whose registration returned failure
\* or raised
FailedRegistrations(run) ==
  { i \in 1..Len(run.workers) : run.workers[i].pc = "done" /\ ~run.workers[i].success }

\* how often the URL u is in the list l
Occurs(u, l) == Cardinality({ k \in 1..Len(l) : l[k] = u })

\* C36: in every 'success' result, successful_repos + failed_repos =
\* repo_count = the number of requested URLs and successful_repos >= 1,
\* whatever the order in which the registrations ended; a requested URL is
\* counted as failed exactly when its registration returned failure or raised
\* (a URL requested several times once for each such registration).
Thm_C36_CountersAddUp ==
  \A r \in 1..Len(runs) :
    runs[r].result.status = "success" =>
      LET run == runs[r]
          performance == run.result
      IN /\ performance.repo_count = Len(run.repo_urls)
         /\ performance.successful_repos + performance.failed_repos = performance.repo_count
         /\ performance.successful_repos >= 1
         /\ performance.failed_repos = Cardinality(FailedRegistrations(run))
         /\ \A u \in Elements(run.repo_urls) :
              Occurs(u, run.failed_repos) =
                Cardinality({ i \in FailedRegistrations(run) : run.repo_urls[i] = u })

\* C36 witness: of two requested repositories the first failed, and the run
\* returned 'success' with the counters 2, 1 and 1.
Wit_C36_OneOfTwoFailed ==
  /\ runs[1].result.status = "success"
  /\ runs[1].result.repo_count = 2
  /\ runs[1].result.successful_repos = 1
  /\ runs[1].result.failed_repos = 1
  /\ FailedRegistrations(runs[1]) = {1}

\* C37: fetch_prs returns normally for every list of repository URLs; for
\* the empty list it returns the empty list of pull requests without raising.
Cex_C37_FetchPrsNeverRaises ==
  /\ fetched.kind # "raised"
  /\ fetched # NotFetched /\ repo_urls = <<>> => FetchReturned /\ fetched.prs = <<>>

\* C38: in a run over distinct repository URLs, a repository reported as
\* successfully registered still has its submodule directory and its manifest
\* stanza when the run has committed and returned 'success', also when two of
\* the URLs have the same last path component.
Cex_C38_RegisteredKeepsDirectoryAndStanza ==
  \A r \in 1..Len(runs) :
    LET run == runs[r]
        d == run.unique_safe_name
    IN ( /\ run.result.status = "success"
         /\ Cardinality(Elements(run.repo_urls)) = Len(run.repo_urls) )
       => \A i \in 1..Len(run.workers) :
            run.workers[i].success =>
              /\ RepoNameFromUrl(run.repo_urls[i]) \in fs[d].submodules
              /\ run.repo_urls[i] \in ActiveStanzas(fs[d].gitmodules)

-----------------------------------------------------------------------------
(* Retention pruning while another assembly run is in progress             *)
(*                                                                         *)
(* Two calls of create_virtual_workspace, named w/x and w, are followed up  *)
(* to git init; between their steps other calls run from their first line  *)
(* to an error return and leave their directory behind.                     *)

\* the most directories left behind by other calls at any time
MaxFailedAttempts == 2

\* the run has made its directory and has not returned
InProgress(run) ==
  /\ run.unique_safe_name # <<>>
  /\ run.pc \notin {"begin", "check_exists", "makedirs", "returned"}

\* the directories that are not the directory of a run in progress
LeftBehind ==
  DOMAIN fs \ { runs[r].unique_safe_name : r \in { q \in 1..Len(runs) : InProgress(runs[q]) } }

\* a whole call of create_virtual_workspace that fails at git init: lines
\* 127-142 name the directory, os.makedirs creates it (line 158), the old
\* directories of its base name are pruned (lines 164-188), git init fails and
\* the call returns 'error' (lines 191-193), leaving the directory
FailedAttempt(names) ==
  LET safe == SafeName(IF Len(names.workspace_name) > 0 THEN names.workspace_name
                       ELSE names.task_name)
      d == UniqueSafeName(safe, clock)
      base_dirs == { e \in DOMAIN fs : StartsWith(e, safe \o <<"_">>) /\ e # d }
  IN /\ ~Exists(d)
     /\ Cardinality(LeftBehind) < MaxFailedAttempts
     /\ fs' = [e \in (DOMAIN fs \ DirsToRemove(base_dirs)) \cup {d} |->
                 IF e = d THEN NewDir(NextCtime) ELSE fs[e]]
     /\ UNCHANGED <<notAssembleVars, runs, clock>>

NextPrune ==
  \/ \E r \in 1..Len(runs) : Begin(r)
  \/ \E r \in 1..Len(runs), removed \in BOOLEAN, rnd \in RandomSuffixes : CheckExists(r, removed, rnd)
  \/ \E r \in 1..Len(runs) : MakeDirs(r)
  \/ \E r \in 1..Len(runs) : PruneOld(r)
  \/ \E r \in 1..Len(runs), ok \in BOOLEAN : GitInit(r, ok)
  \/ \E names \in NameArgs : FailedAttempt(names)
  \/ Tick

InitPrune ==
  /\ PrServiceIdle
  /\ FetchIdle
  /\ ZipIdle
  /\ RoutesIdle
  /\ LoopIdle
  /\ ClientIdle
  /\ runs = << NewRun([workspace_name |-> <<"w","/","x">>, task_name |-> <<"t">>],
                      << <<"g","/","b">> >>),
               NewRun([workspace_name |-> <<"w">>, task_name |-> <<"t">>],
                      << <<"g","/","b">> >>) >>
  /\ fs = <<>>
  /\ clock = StartClock

SpecPrune == InitPrune /\ [][NextPrune]_vars

\* C39: the pruning of a run removes neither the run's own directory nor the
\* directory of another run that is in progress, runs whose directory name
\* merely starts with the pruning run's '<safe_name>_' included.
Cex_C39_PruningSparesRunsInProgress ==
  [][\A q \in 1..Len(runs) :
       (runs[q].pc = "prune" /\ runs'[q].pc # "prune")
         => /\ Exists(runs[q].unique_safe_name)
                 => runs[q].unique_safe_name \in DOMAIN fs'
            /\ \A r \in 1..Len(runs) :
                 (r # q /\ InProgress(runs[r]) /\ Exists(runs[r].unique_safe_name))
                   => runs[r].unique_safe_name \in DOMAIN fs']_vars

=============================================================================
